---- MODULE Spec2Model ----
(***************************************************************************)
(* Model of the poll application (src/sondage_clone/app.py): the votes     *)
(* table, the vote handler with its duplicate check and delete-then-insert *)
(* replacement inside one sqlite3 transaction, the aggregator query and    *)
(* the sorted summary and recommendation of the poll view.                 *)
(*                                                                         *)
(* Strings are sequences of one-character strings, so that strip(),        *)
(* lower(), slicing, COLLATE NOCASE and EMAIL_REGEX are computed.          *)
(***************************************************************************)
EXTENDS Integers, Sequences, FiniteSets, Bags, TLC

VARIABLES
    polls,      \* table polls: sequence of rows, id = index
    slots,      \* table slots: sequence of rows, id = index
    votes,      \* table votes (committed): bag of rows
    now,        \* datetime.utcnow(), in whole time units
    csrf,       \* session["csrf_token"] of the browser session ("" = absent)
    voter,      \* session[voter_session_key(poll_id)]: poll id -> identity
    resp,       \* flash message / outcome of the last handled request
    conn,       \* concurrent requests: per request its handler position and
                \* the uncommitted work of its sqlite3 connection
    lock,       \* request holding the database write lock, or NoReq
    seen,       \* what the last poll-view read of each reader returned
    users,      \* table users: sequence of rows, id = index
    login,      \* session["app_user_id"] of each browser (NULL = absent)
    admin,      \* poll ids whose admin_session_key is set in the session
    csrf2,      \* session["csrf_token"] of the second browser
    pend,       \* user-administration requests in flight, per browser
    auth_enabled, \* SONDAGE_AUTH_ENABLED of the deployment
    wx,         \* weather web tool: the response to the last request
    gui         \* desktop weather tool: widgets, timers and worker threads

account_vars == <<users, login, admin, csrf2, pend, auth_enabled>>
weather_vars == <<wx, gui>>

vars == <<polls, slots, votes, now, csrf, voter, resp, conn, lock, seen,
          account_vars, weather_vars>>

----------------------------------------------------------------------------
(* Characters and strings *)

Upper == {"A", "B"}
Space == {" "}

\* str.lower() on one character (ASCII letters of the model's alphabet)
LowerChar(c) ==
    CASE c = "A" -> "a"
      [] c = "B" -> "b"
      [] OTHER -> c

lower(s) == [i \in 1..Len(s) |-> LowerChar(s[i])]

RECURSIVE lstrip(_)
lstrip(s) ==
    IF s = <<>> THEN <<>>
    ELSE IF Head(s) \in Space THEN lstrip(Tail(s)) ELSE s

RECURSIVE rstrip(_)
rstrip(s) ==
    IF s = <<>> THEN <<>>
    ELSE IF s[Len(s)] \in Space THEN rstrip(SubSeq(s, 1, Len(s) - 1)) ELSE s

strip(s) == rstrip(lstrip(s))

\* s[:n]
Prefix(s, n) == IF Len(s) <= n THEN s ELSE SubSeq(s, 1, n)

\* code point order of the model's characters
Ord(c) ==
    CASE c = " " -> 32
      [] c = "." -> 46
      [] c = "@" -> 64
      [] c = "A" -> 65
      [] c = "B" -> 66
      [] c = "a" -> 97
      [] c = "b" -> 98
      [] c = "l" -> 108
      [] c = "x" -> 120
      [] OTHER -> 121

\* Python's str < str: lexicographic by code point
RECURSIVE StrLess(_, _)
StrLess(s, t) ==
    IF t = <<>> THEN FALSE
    ELSE IF s = <<>> THEN TRUE
    ELSE IF Ord(Head(s)) # Ord(Head(t)) THEN Ord(Head(s)) < Ord(Head(t))
    ELSE StrLess(Tail(s), Tail(t))

\* participant_name = ? COLLATE NOCASE
NoCaseEq(s, t) == lower(s) = lower(t)

\* EMAIL_REGEX = ^[^\s@]+@[^\s@]+\.[^\s@]+$
NoSpaceAt(s) == \A i \in 1..Len(s) : s[i] \notin Space /\ s[i] # "@"

\* variant: any non-empty address is taken
EMAIL_REGEX_any(s) == s # <<>>

EMAIL_REGEX_match(s) ==
    \E i \in 2..Len(s) - 3 :
        \E j \in i + 2..Len(s) - 1 :
            /\ s[i] = "@"
            /\ s[j] = "."
            /\ NoSpaceAt(SubSeq(s, 1, i - 1))
            /\ NoSpaceAt(SubSeq(s, i + 1, j - 1))
            /\ NoSpaceAt(SubSeq(s, j + 1, Len(s)))

----------------------------------------------------------------------------
(* Tables and queries *)

NULL == 0          \* SQL NULL / Python None for ids and timestamps

\* SELECT * FROM polls WHERE token = ?   (token is UNIQUE)
get_poll_by_token(token) ==
    IF \E i \in 1..Len(polls) : polls[i].token = token
    THEN CHOOSE i \in 1..Len(polls) : polls[i].token = token
    ELSE NULL

\* ORDER BY position ASC, id ASC on a sequence of slot ids
SlotBefore(a, b) ==
    \/ slots[a].position < slots[b].position
    \/ slots[a].position = slots[b].position /\ a < b

RECURSIVE OrderSlots(_)
OrderSlots(S) ==
    IF S = {} THEN <<>>
    ELSE LET first == CHOOSE a \in S : \A b \in S \ {a} : SlotBefore(a, b)
         IN  <<first>> \o OrderSlots(S \ {first})

\* SELECT * FROM slots WHERE poll_id = ? ORDER BY position ASC, id ASC
get_poll_slots(poll_id) ==
    OrderSlots({i \in 1..Len(slots) : slots[i].poll_id = poll_id})

\* number of rows of a bag that satisfy a condition, given as the set of
\* matching rows
RECURSIVE CountRows(_, _)
CountRows(bag, S) ==
    IF S = {} THEN 0
    ELSE LET r == CHOOSE x \in S : TRUE
         IN  bag[r] + CountRows(bag, S \ {r})

\* SUM(CASE WHEN v.choice = c THEN 1 ELSE 0 END) over votes v joined
\* ON v.slot_id = s.id
SumChoice(bag, slot_id, c) ==
    CountRows(bag, {v \in DOMAIN bag : v.slot_id = slot_id /\ v.choice = c})

\* aggregate_results over a given content of the votes table
aggregate_over(bag, poll_id) ==
    LET ids == get_poll_slots(poll_id)
    IN  [k \in 1..Len(ids) |->
            [id        |-> ids[k],
             label     |-> slots[ids[k]].label,
             yes_count |-> SumChoice(bag, ids[k], "yes"),
             no_count  |-> SumChoice(bag, ids[k], "no")]]

aggregate_results(poll_id) == aggregate_over(votes, poll_id)

\* variant: the labels compared as they are, without lower()
SummaryKeyLessRaw(r1, r2) ==
    \/ -r1.yes_count < -r2.yes_count
    \/ /\ r1.yes_count = r2.yes_count
       /\ \/ r1.no_count < r2.no_count
          \/ /\ r1.no_count = r2.no_count
             /\ StrLess(r1.label, r2.label)

\* the sort key of view_poll:
\*   (-int(row["yes_count"]), int(row["no_count"]), row["label"].lower())
SummaryKeyLess(r1, r2) ==
    \/ -r1.yes_count < -r2.yes_count
    \/ /\ r1.yes_count = r2.yes_count
       /\ \/ r1.no_count < r2.no_count
          \/ /\ r1.no_count = r2.no_count
             /\ StrLess(lower(r1.label), lower(r2.label))

\* sorted(): stable; an element goes after every element not greater than it
RECURSIVE InsertStable(_, _)
InsertStable(sorted, x) ==
    IF sorted = <<>> THEN <<x>>
    ELSE IF SummaryKeyLess(x, Head(sorted)) THEN <<x>> \o sorted
    ELSE <<Head(sorted)>> \o InsertStable(Tail(sorted), x)

RECURSIVE sorted_summary(_)
sorted_summary(rows) ==
    IF rows = <<>> THEN <<>>
    ELSE InsertStable(sorted_summary(SubSeq(rows, 1, Len(rows) - 1)),
                      rows[Len(rows)])

\* key of recommendation(): (row["yes_count"], -row["no_count"])
RecoKeyLess(r1, r2) ==
    \/ r1.yes_count < r2.yes_count
    \/ r1.yes_count = r2.yes_count /\ -r1.no_count < -r2.no_count

NoRow == [id |-> NULL, label |-> <<>>, yes_count |-> 0, no_count |-> 0]

\* variant: the last of the maximal elements
RECURSIVE MaxLast(_, _)
MaxLast(best, rest) ==
    IF rest = <<>> THEN best
    ELSE IF RecoKeyLess(Head(rest), best) THEN MaxLast(best, Tail(rest))
    ELSE MaxLast(Head(rest), Tail(rest))

\* max(rows, key=...): the first of the maximal elements
RECURSIVE MaxFirst(_, _)
MaxFirst(best, rest) ==
    IF rest = <<>> THEN best
    ELSE IF RecoKeyLess(best, Head(rest)) THEN MaxFirst(Head(rest), Tail(rest))
    ELSE MaxFirst(best, Tail(rest))

recommendation(summary_rows) ==
    IF summary_rows = <<>> THEN NoRow
    ELSE MaxFirst(Head(summary_rows), Tail(summary_rows))

\* what view_poll hands to the template
summary_sorted(poll_id) == sorted_summary(aggregate_results(poll_id))
top_choice(poll_id) == recommendation(summary_sorted(poll_id))

----------------------------------------------------------------------------
(* Request helpers *)

\* validate_csrf(): both tokens present and equal
validate_csrf(form_token) ==
    form_token # "" /\ csrf # "" /\ form_token = csrf

\* normalize_response_mode()
normalize_response_mode(raw_mode) ==
    IF raw_mode = "availability" THEN "multiple"
    ELSE IF raw_mode \in {"single", "multiple"} THEN raw_mode
    ELSE "single"

\* variant: the deadline is never looked at
is_deadline_ignored(deadline_at) == FALSE

\* is_deadline_passed(): a NULL deadline never passes
is_deadline_passed(deadline_at) ==
    IF deadline_at = NULL THEN FALSE ELSE now > deadline_at

MaxNow == 4        \* last instant of the clock

\* datetime.utcnow() read by a later request: time has passed
tick ==
    /\ now < MaxNow
    /\ now' = now + 1
    /\ UNCHANGED <<polls, slots, votes, csrf, voter, resp, conn, lock, seen, account_vars, weather_vars>>

NameCap == 80      \* participant_name[:80]
LabelCap == 120    \* line.strip()[:120]
MinSlots == 2      \* len(slots) < 2 is refused
MaxSlots == 30     \* len(slots) > 30 is refused
MinCodeLen == 8    \* len(organizer_code) < 8 is refused

----------------------------------------------------------------------------
(* The votes table *)

VoteRow(poll_id, slot_id, name, email, choice) ==
    [poll_id |-> poll_id, slot_id |-> slot_id, participant_name |-> name,
     participant_email |-> email, choice |-> choice]

\* variant: the condition on poll_id left out
SameBallotRowAnyPoll(v, poll_id, name, email) ==
    IF email # <<>>
    THEN v.participant_email = email
    ELSE v.participant_email = <<>> /\ NoCaseEq(v.participant_name, name)

\* variant: the participant matched by name alone, the email not looked at
SameBallotRowByName(v, poll_id, name, email) ==
    v.poll_id = poll_id /\ NoCaseEq(v.participant_name, name)

\* the WHERE clause shared by the duplicate check, the DELETE and vote_status:
\*   poll_id = ? AND participant_email = ?                       (email given)
\*   poll_id = ? AND COALESCE(participant_email, '') = ''
\*               AND participant_name = ? COLLATE NOCASE         (no email)
SameBallotRow(v, poll_id, name, email) ==
    /\ v.poll_id = poll_id
    /\ IF email # <<>>
       THEN v.participant_email = email
       ELSE v.participant_email = <<>> /\ NoCaseEq(v.participant_name, name)

\* variant: the name compared without COLLATE NOCASE
duplicate_vote_binary(bag, poll_id, name, email) ==
    \E v \in DOMAIN bag :
        /\ v.poll_id = poll_id
        /\ IF email # <<>>
           THEN v.participant_email = email
           ELSE v.participant_email = <<>> /\ v.participant_name = name

\* SELECT 1 FROM votes WHERE ... LIMIT 1
duplicate_vote(bag, poll_id, name, email) ==
    \E v \in DOMAIN bag : SameBallotRow(v, poll_id, name, email)

\* variant: the DELETE left out
delete_nothing(bag, poll_id, name, email) == bag

\* DELETE FROM votes WHERE ...
delete_votes(bag, poll_id, name, email) ==
    LET keep == {v \in DOMAIN bag : ~SameBallotRow(v, poll_id, name, email)}
    IN  [v \in keep |-> bag[v]]

\* INSERT INTO votes (...) VALUES (...)
insert_vote(bag, row) == bag (+) SetToBag({row})

\* variant: the loop over slots without its "continue", a row per option
chosen_slots_all(poll_id, response_mode, form) == get_poll_slots(poll_id)

\* the slot ids the loop over slots inserts a row for, in the order of slots
chosen_slots(poll_id, response_mode, form) ==
    LET ids == get_poll_slots(poll_id)
        allowed_slot_ids == {ids[k] : k \in 1..Len(ids)}
        selected_multiple ==
            {raw \in form.selected_slots : raw >= 0 /\ raw \in allowed_slot_ids}
    IN  SelectSeq(ids,
            LAMBDA id : IF response_mode = "single"
                        THEN id = form.selected_slot
                        ELSE id \in selected_multiple)

\* the write statements of one submission, in execution order
write_statements(poll_id, response_mode, name, email, form, dup) ==
    LET ids == chosen_slots(poll_id, response_mode, form)
    IN  (IF dup THEN <<[op |-> "delete"]>> ELSE <<>>)
        \o [k \in 1..Len(ids) |->
               [op |-> "insert",
                row |-> VoteRow(poll_id, ids[k], name, email, "yes")]]

\* one statement executed on the connection's uncommitted view of the table
execute(bag, stmt, poll_id, name, email) ==
    IF stmt.op = "delete"
    THEN delete_votes(bag, poll_id, name, email)
    ELSE insert_vote(bag, stmt.row)

\* the first n statements executed in order
RECURSIVE execute_first(_, _, _, _, _, _)
execute_first(bag, stmts, n, poll_id, name, email) ==
    IF n = 0 THEN bag
    ELSE execute(execute_first(bag, stmts, n - 1, poll_id, name, email),
                 stmts[n], poll_id, name, email)

\* db.commit(): the connection's work becomes the table
commit(committed, work) == work

\* variant: a connection in autocommit mode, every statement is final
close_db_autocommit(committed, work) == work

\* close_db() on a connection with uncommitted work: sqlite3 rolls it back
close_db(committed, work) == committed

----------------------------------------------------------------------------
(* POST /poll/<token>/vote *)

MaxFault == 3      \* write statements of one request that may raise

Outcome(flash, table, remember) ==
    [flash |-> flash, table |-> table, remember |-> remember]

\* variant: the name is kept whole
form_name_whole(form) == strip(form.participant_name)

\* the normalized identity of a submission
form_name(form) == Prefix(strip(form.participant_name), NameCap)
form_email(form) == lower(strip(form.participant_email))

\* the checks before the first write statement: the flash message of the
\* early return, or "" when the handler goes on
early_return(table, token, form) ==
    LET poll_id == get_poll_by_token(token)
    IN
    IF ~validate_csrf(form.csrf_token) THEN "csrf"
    ELSE IF poll_id = NULL THEN "poll_not_found"
    ELSE IF is_deadline_passed(polls[poll_id].deadline_at) THEN "closed"
    ELSE IF ~form.rgpd_vote THEN "consent_required"
    ELSE IF strip(form.participant_name) = <<>> THEN "name_required"
    ELSE IF form_email(form) # <<>> /\ ~EMAIL_REGEX_match(form_email(form))
    THEN "email_invalid"
    ELSE IF get_poll_slots(poll_id) = <<>> THEN "no_slots"
    ELSE IF /\ duplicate_vote(table, poll_id, form_name(form), form_email(form))
            /\ ~form.replace_existing_vote
    THEN "duplicate"
    ELSE ""

\* the checks of the single choice, made after the DELETE: the flash
\* message of the early return, or ""
selection_error(poll_id, form) ==
    LET ids == get_poll_slots(poll_id)
        allowed_slot_ids == {ids[k] : k \in 1..Len(ids)}
    IN  IF normalize_response_mode(polls[poll_id].response_mode) # "single" THEN ""
        ELSE IF form.selected_slot < 0 THEN "choose_option"
        ELSE IF form.selected_slot \notin allowed_slot_ids THEN "option_invalid"
        ELSE ""

\* The handler on the table content `table`, with statement number `fail`
\* raising sqlite3.Error (0: none; number of statements + 1: the commit).
\* An early return or an exception leaves the connection to close_db.
vote_result(table, token, form, fail) ==
    LET early == early_return(table, token, form)
        poll_id == get_poll_by_token(token)
        dup == duplicate_vote(table, poll_id, form_name(form), form_email(form))
        response_mode == normalize_response_mode(polls[poll_id].response_mode)
        stmts == write_statements(poll_id, response_mode, form_name(form),
                                  form_email(form), form, dup)
        work(n) == execute_first(table, stmts, n, poll_id, form_name(form),
                                 form_email(form))
        deleted == IF dup THEN 1 ELSE 0
    IN
    IF early # "" THEN Outcome(early, table, FALSE)
    ELSE IF dup /\ fail = 1
    THEN Outcome("error500", close_db(table, work(0)), FALSE)
    ELSE IF selection_error(poll_id, form) # ""
    THEN Outcome(selection_error(poll_id, form), close_db(table, work(deleted)), FALSE)
    ELSE IF fail \in 1..Len(stmts)
    THEN Outcome("error500", close_db(table, work(fail - 1)), FALSE)
    ELSE IF fail = Len(stmts) + 1
    THEN Outcome("error500", close_db(table, work(Len(stmts))), FALSE)
    ELSE Outcome(IF dup THEN "updated" ELSE "recorded",
                 commit(table, work(Len(stmts))), TRUE)

\* session[voter_session_key(poll["id"])] = {"name": ..., "email": ...}
remember_voter(poll_id, form) ==
    (poll_id :> [name |-> form_name(form), email |-> form_email(form)]) @@ voter

vote(token, form) ==
    \E fail \in 0..MaxFault :
        LET r == vote_result(votes, token, form, fail)
        IN  /\ votes' = r.table
            /\ resp' = r.flash
            /\ voter' = IF r.remember
                        THEN remember_voter(get_poll_by_token(token), form)
                        ELSE voter
            /\ UNCHANGED <<polls, slots, now, csrf, conn, lock, seen, account_vars, weather_vars>>

----------------------------------------------------------------------------
(* GET /poll/<token>/vote-status *)

\* the "exists" field of the JSON answer
vote_status(token, raw_email, raw_name) ==
    LET poll_id == get_poll_by_token(token)
        email == lower(strip(raw_email))
        name == strip(raw_name)
    IN  IF poll_id = NULL THEN FALSE
        ELSE IF email # <<>> /\ EMAIL_REGEX_match(email)
        THEN \E v \in DOMAIN votes : SameBallotRow(v, poll_id, name, email)
        ELSE IF name # <<>>
        THEN \E v \in DOMAIN votes : SameBallotRow(v, poll_id, name, <<>>)
        ELSE FALSE

----------------------------------------------------------------------------
(* Accounts and browser sessions *)

\* two browsers, each with its own session cookie; csrf, voter and admin are
\* the keys of the first browser's session, csrf2 the token of the second
Browsers == {"b1", "b2"}

session_token(b) == IF b = "b1" THEN csrf ELSE csrf2

\* variant: the two tokens are compared without asking that they are present
validate_csrf_of_equal(b, form_token) == form_token = session_token(b)

\* validate_csrf() in the session of browser b
validate_csrf_of(b, form_token) ==
    form_token # "" /\ session_token(b) # "" /\ form_token = session_token(b)

MinPassword == 8
auth_allow_registration == TRUE

generate_password_hash(plain) == <<"#">> \o plain
check_password_hash(hash, plain) == hash = generate_password_hash(plain)

\* SELECT * FROM users WHERE id = ?
get_user_by_id(user_id) ==
    IF user_id \in 1..Len(users) THEN user_id ELSE NULL

\* SELECT * FROM users WHERE email = ?   (email is UNIQUE)
get_user_by_email(email) ==
    IF \E i \in 1..Len(users) : users[i].email = email
    THEN CHOOSE i \in 1..Len(users) : users[i].email = email
    ELSE NULL

\* variant: is_active is not looked at
get_current_user_inactive(b) ==
    IF login[b] = NULL THEN NULL
    ELSE IF get_user_by_id(login[b]) = NULL THEN NULL
    ELSE login[b]

\* get_current_user(): the row of session["app_user_id"] when it exists and
\* is active, None otherwise
get_current_user(b) ==
    IF login[b] = NULL THEN NULL
    ELSE IF get_user_by_id(login[b]) = NULL THEN NULL
    ELSE IF ~users[login[b]].is_active THEN NULL
    ELSE login[b]

\* session["app_user_id"] after get_current_user(): popped when it names no
\* active account
app_user_id_checked(b) == get_current_user(b)

\* enforce_optional_app_auth() on an endpoint that is not public
login_required(b) == auth_enabled /\ get_current_user(b) = NULL

\* SELECT COUNT(*) FROM users WHERE is_admin = 1 AND is_active = 1
active_admins_count(table) ==
    Cardinality({i \in 1..Len(table) : table[i].is_admin /\ table[i].is_active})

\* what a handler of browser b leaves: the tables, session["app_user_id"],
\* whether session.clear() ran, the organizer flags and the flash message
Handled(table, rows, user, cleared, flags, flash) ==
    [users |-> table, polls |-> rows, user |-> user, cleared |-> cleared,
     admin |-> flags, resp |-> flash]

\* a request that returns before get_current_user() is called
Untouched(b, flash) == Handled(users, polls, login[b], FALSE, admin, flash)

\* a request that returns after get_current_user() and changes nothing else
Refused(b, flash) ==
    Handled(users, polls, app_user_id_checked(b), FALSE, admin, flash)

\* session.clear(), then session["app_user_id"] = user (NULL: key absent)
session_clear(b, user) ==
    /\ login' = [login EXCEPT ![b] = user]
    /\ IF b = "b1"
       THEN /\ csrf' = ""
            /\ voter' = <<>>
            /\ admin' = {}
            /\ UNCHANGED csrf2
       ELSE /\ csrf2' = ""
            /\ UNCHANGED <<csrf, voter, admin>>

\* the tables and the session after a handled request
respond(b, r) ==
    /\ users' = r.users
    /\ polls' = r.polls
    /\ resp' = r.resp
    /\ IF r.cleared
       THEN session_clear(b, r.user)
       ELSE /\ login' = [login EXCEPT ![b] = r.user]
            /\ admin' = r.admin
            /\ UNCHANGED <<csrf, csrf2, voter>>
    /\ UNCHANGED <<slots, votes, now, conn, lock, seen, pend, auth_enabled,
                   weather_vars>>

\* a rendered page: the template calls csrf_token(), inject_csrf() calls
\* get_current_user()
render_template(b) ==
    /\ login' = [login EXCEPT ![b] = app_user_id_checked(b)]
    /\ IF b = "b1"
       THEN /\ csrf' = IF csrf = "" THEN "tok" ELSE csrf
            /\ UNCHANGED csrf2
       ELSE /\ csrf2' = IF csrf2 = "" THEN "tok2" ELSE csrf2
            /\ UNCHANGED csrf

----------------------------------------------------------------------------
(* POST /create, GET /poll/<token> *)

\* slots = [line.strip()[:120] for line in raw_slots.splitlines() if line.strip()]
RECURSIVE slot_labels(_)
slot_labels(lines) ==
    IF lines = <<>> THEN <<>>
    ELSE IF strip(Head(lines)) = <<>> THEN slot_labels(Tail(lines))
    ELSE <<Prefix(strip(Head(lines)), LabelCap)>> \o slot_labels(Tail(lines))

create_poll(token, form) ==
    LET labels == slot_labels(form.slots)
        poll_id == Len(polls) + 1
        refused ==
            IF login_required("b1") THEN "login_required"
            ELSE IF ~validate_csrf(form.csrf_token) THEN "csrf"
            ELSE IF ~form.rgpd_creator THEN "consent_required"
            ELSE IF form.deadline_at < 0 THEN "deadline_invalid"
            ELSE IF strip(form.title) = <<>> THEN "title_required"
            ELSE IF strip(form.creator_name) = <<>> THEN "creator_required"
            ELSE IF Len(labels) < MinSlots THEN "too_few_slots"
            ELSE IF Len(labels) > MaxSlots THEN "too_many_slots"
            ELSE IF Len(strip(form.organizer_code)) < MinCodeLen THEN "code_too_short"
            ELSE IF get_poll_by_token(token) # NULL THEN "create_error500"
            ELSE ""
        \* get_current_user() runs in enforce_optional_app_auth() and again
        \* once the form is valid
        looked_up == refused \in {"login_required", "create_error500", ""}
    IN  /\ IF refused # ""
           THEN /\ resp' = refused
                /\ UNCHANGED <<polls, slots, admin>>
           ELSE /\ polls' = Append(polls,
                        [token         |-> token,
                         title         |-> Prefix(strip(form.title), LabelCap),
                         response_mode |-> normalize_response_mode(form.response_mode),
                         deadline_at   |-> form.deadline_at,
                         created_by_user_id  |-> get_current_user("b1"),
                         organizer_code_hash |->
                             generate_password_hash(strip(form.organizer_code)),
                         archived_at         |-> NULL,
                         archived_by_user_id |-> NULL])
                /\ slots' = slots \o
                        [k \in 1..Len(labels) |->
                            [poll_id |-> poll_id, label |-> labels[k], position |-> k]]
                /\ admin' = admin \cup {poll_id}
                /\ resp' = "created"
        /\ login' = IF looked_up
                    THEN [login EXCEPT !["b1"] = app_user_id_checked("b1")]
                    ELSE login
        /\ UNCHANGED <<votes, now, csrf, voter, conn, lock, seen, users, csrf2,
                       pend, auth_enabled, weather_vars>>

\* variant: every session counts as organizer
is_admin_authenticated_any(poll_id) == TRUE

\* is_admin_authenticated(poll)
is_admin_authenticated(poll_id) == poll_id \in admin

\* is_poll_owner of view_poll
is_poll_owner(poll_id) ==
    /\ get_current_user("b1") # NULL
    /\ polls[poll_id].created_by_user_id # NULL
    /\ polls[poll_id].created_by_user_id = get_current_user("b1")

\* key = email or name, of participant_rows()
participant_key(v) ==
    IF lower(strip(v.participant_email)) # <<>>
    THEN lower(strip(v.participant_email))
    ELSE strip(v.participant_name)

\* participant_rows(): the participants and their matrix of choices
participant_rows(poll_id) ==
    LET rows == {v \in DOMAIN votes : v.poll_id = poll_id /\ participant_key(v) # <<>>}
        keys == {participant_key(v) : v \in rows}
    IN  [participants |-> keys,
         matrix |-> [k \in keys |->
                        {<<v.slot_id, v.choice>> : v \in {w \in rows : participant_key(w) = k}}]]

\* what render_template("poll.html", ...) is given by view_poll
poll_page(token) ==
    LET poll_id == get_poll_by_token(token)
        admin_mode == is_admin_authenticated(poll_id) \/ is_poll_owner(poll_id)
    IN  [summary      |-> summary_sorted(poll_id),
         top_choice   |-> top_choice(poll_id),
         admin_mode   |-> admin_mode,
         participants |-> IF admin_mode
                          THEN participant_rows(poll_id).participants ELSE {},
         matrix       |-> IF admin_mode
                          THEN participant_rows(poll_id).matrix ELSE <<>>]

\* rendering a page calls csrf_token() from the template: the session gets
\* a token when it has none; an unknown token redirects to the home page
view_poll(token) ==
    /\ render_template("b1")
    /\ resp' = IF get_poll_by_token(token) = NULL THEN "poll_not_found" ELSE "page"
    /\ UNCHANGED <<polls, slots, votes, now, voter, conn, lock, seen, users,
                   admin, pend, auth_enabled, weather_vars>>

----------------------------------------------------------------------------
(* Accounts: /auth/login, /auth/register, /auth/logout, /admin/users/... *)

\* GET of a page of the site (home, login or register page)
home(b) ==
    /\ render_template(b)
    /\ resp' = IF login_required(b) THEN "login_page" ELSE "home"
    /\ UNCHANGED <<polls, slots, votes, now, voter, conn, lock, seen, users,
                   admin, pend, auth_enabled, weather_vars>>

new_user(email, password, is_active, is_admin) ==
    [email |-> email, password_hash |-> generate_password_hash(password),
     is_active |-> is_active, is_admin |-> is_admin]

\* POST /auth/register
auth_register_result(b, form) ==
    LET email == lower(strip(form.email))
    IN
    IF ~auth_enabled THEN Untouched(b, "home")
    ELSE IF get_current_user(b) # NULL THEN Untouched(b, "home")
    ELSE IF ~auth_allow_registration THEN Refused(b, "registration_off")
    ELSE IF ~validate_csrf_of(b, form.csrf_token) THEN Refused(b, "csrf")
    ELSE IF ~form.rgpd THEN Refused(b, "consent_required")
    ELSE IF ~EMAIL_REGEX_match(email) THEN Refused(b, "email_invalid")
    ELSE IF Len(form.password) < MinPassword THEN Refused(b, "password_short")
    ELSE IF form.password # form.password_confirm
    THEN Refused(b, "password_mismatch")
    ELSE IF get_user_by_email(email) # NULL THEN Refused(b, "account_exists")
    ELSE Handled(Append(users, new_user(email, form.password, TRUE, Len(users) = 0)),
                 polls, Len(users) + 1, TRUE, {}, "registered")

auth_register(b, form) == respond(b, auth_register_result(b, form))

\* POST /auth/login
auth_login_result(b, form) ==
    LET email == lower(strip(form.email))
        user == IF EMAIL_REGEX_match(email) THEN get_user_by_email(email) ELSE NULL
    IN
    IF ~auth_enabled THEN Untouched(b, "home")
    ELSE IF get_current_user(b) # NULL THEN Untouched(b, "home")
    ELSE IF ~validate_csrf_of(b, form.csrf_token) THEN Refused(b, "csrf")
    ELSE IF ~form.rgpd THEN Refused(b, "consent_required")
    ELSE IF user # NULL /\ check_password_hash(users[user].password_hash, form.password)
    THEN IF ~users[user].is_active
         THEN Refused(b, "account_disabled")
         ELSE Handled(users, polls, user, TRUE, {}, "logged_in")
    ELSE Refused(b, "bad_credentials")

auth_login(b, form) == respond(b, auth_login_result(b, form))

\* POST /auth/logout
auth_logout_result(b, form_token) ==
    IF login_required(b) THEN Refused(b, "login_required")
    ELSE IF ~validate_csrf_of(b, form_token) THEN Untouched(b, "csrf")
    ELSE Handled(users, polls, NULL, TRUE, {}, "logged_out")

auth_logout(b, form_token) == respond(b, auth_logout_result(b, form_token))

\* POST /admin/users/create
admin_create_user_result(b, form) ==
    LET email == lower(strip(form.email))
        current_user == get_current_user(b)
    IN
    IF login_required(b) THEN Refused(b, "login_required")
    ELSE IF ~validate_csrf_of(b, form.csrf_token) THEN Untouched(b, "csrf")
    ELSE IF current_user = NULL \/ ~users[current_user].is_admin
    THEN Refused(b, "admin_required")
    ELSE IF ~EMAIL_REGEX_match(email) THEN Refused(b, "email_invalid")
    ELSE IF Len(form.password) < MinPassword THEN Refused(b, "password_short")
    ELSE IF get_user_by_email(email) # NULL THEN Refused(b, "account_exists")
    ELSE Handled(Append(users, new_user(email, form.password,
                                        form.is_active, form.is_admin)),
                 polls, login[b], FALSE, admin, "user_added")

admin_create_user(b, form) == respond(b, admin_create_user_result(b, form))

\* the checks of admin_toggle_user_active() before its UPDATE
toggle_active_refusal(b, user_id, form_token) ==
    LET current_user == get_current_user(b)
    IN
    IF login_required(b) THEN "login_required"
    ELSE IF ~validate_csrf_of(b, form_token) THEN "csrf"
    ELSE IF current_user = NULL \/ ~users[current_user].is_admin
    THEN "admin_required"
    ELSE IF get_user_by_id(user_id) = NULL THEN "user_not_found"
    ELSE IF user_id = current_user THEN "own_account"
    ELSE IF /\ users[user_id].is_active
            /\ users[user_id].is_admin
            /\ active_admins_count(users) <= 1
    THEN "last_admin"
    ELSE ""

\* the checks of admin_toggle_user_admin() before its UPDATE
toggle_admin_refusal(b, user_id, form_token) ==
    LET current_user == get_current_user(b)
    IN
    IF login_required(b) THEN "login_required"
    ELSE IF ~validate_csrf_of(b, form_token) THEN "csrf"
    ELSE IF current_user = NULL \/ ~users[current_user].is_admin
    THEN "admin_required"
    ELSE IF get_user_by_id(user_id) = NULL THEN "user_not_found"
    ELSE IF user_id = current_user /\ users[user_id].is_admin THEN "own_role"
    ELSE IF /\ users[user_id].is_admin
            /\ users[user_id].is_active
            /\ active_admins_count(users) <= 1
    THEN "last_admin"
    ELSE ""

\* UPDATE users SET is_active = ? WHERE id = ?
update_is_active(table, user_id, new_value) ==
    [i \in 1..Len(table) |->
        IF i = user_id THEN [table[i] EXCEPT !.is_active = new_value] ELSE table[i]]

\* UPDATE users SET is_admin = ? WHERE id = ?
update_is_admin(table, user_id, new_value) ==
    [i \in 1..Len(table) |->
        IF i = user_id THEN [table[i] EXCEPT !.is_admin = new_value] ELSE table[i]]

toggle_refused(b, refusal) ==
    IF refusal = "csrf" THEN Untouched(b, refusal) ELSE Refused(b, refusal)

\* POST /admin/users/<user_id>/toggle-active
admin_toggle_user_active_result(b, user_id, form_token) ==
    LET refusal == toggle_active_refusal(b, user_id, form_token)
    IN  IF refusal # "" THEN toggle_refused(b, refusal)
        ELSE Handled(update_is_active(users, user_id, ~users[user_id].is_active),
                     polls, login[b], FALSE, admin, "status_updated")

admin_toggle_user_active(b, user_id, form_token) ==
    respond(b, admin_toggle_user_active_result(b, user_id, form_token))

\* POST /admin/users/<user_id>/toggle-admin
admin_toggle_user_admin_result(b, user_id, form_token) ==
    LET refusal == toggle_admin_refusal(b, user_id, form_token)
    IN  IF refusal # "" THEN toggle_refused(b, refusal)
        ELSE Handled(update_is_admin(users, user_id, ~users[user_id].is_admin),
                     polls, login[b], FALSE, admin, "role_updated")

admin_toggle_user_admin(b, user_id, form_token) ==
    respond(b, admin_toggle_user_admin_result(b, user_id, form_token))

\* GET /admin/users: the rows shown to an administrator
admin_users_result(b) ==
    LET current_user == get_current_user(b)
    IN  IF current_user = NULL THEN "login_page"
        ELSE IF ~users[current_user].is_admin THEN "admin_required"
        ELSE "admin_users"

admin_users(b) ==
    /\ render_template(b)
    /\ resp' = admin_users_result(b)
    /\ UNCHANGED <<polls, slots, votes, now, voter, conn, lock, seen, users,
                   admin, pend, auth_enabled, weather_vars>>

\* GET /my-polls: the polls listed for the current user
my_polls_result(b) ==
    LET current_user == get_current_user(b)
    IN  IF current_user = NULL THEN {}
        ELSE {i \in 1..Len(polls) : polls[i].created_by_user_id = current_user}

my_polls(b) ==
    /\ render_template(b)
    /\ resp' = IF get_current_user(b) = NULL THEN "login_page" ELSE "my_polls"
    /\ UNCHANGED <<polls, slots, votes, now, voter, conn, lock, seen, users,
                   admin, pend, auth_enabled, weather_vars>>

\* variant: the UPDATE also closes the poll at the time of archival
update_archived_and_close(rows, poll_id, at, by) ==
    [i \in 1..Len(rows) |->
        IF i = poll_id
        THEN [rows[i] EXCEPT !.archived_at = at, !.archived_by_user_id = by,
                             !.deadline_at = at]
        ELSE rows[i]]

\* UPDATE polls SET archived_at = ?, archived_by_user_id = ? WHERE id = ?
update_archived(rows, poll_id, at, by) ==
    [i \in 1..Len(rows) |->
        IF i = poll_id
        THEN [rows[i] EXCEPT !.archived_at = at, !.archived_by_user_id = by]
        ELSE rows[i]]

\* POST /poll/<token>/archive
archive_poll_result(b, token, form) ==
    LET current_user == get_current_user(b)
        poll == get_poll_by_token(token)
        can_manage ==
            \/ users[current_user].is_admin
            \/ /\ polls[poll].created_by_user_id # NULL
               /\ polls[poll].created_by_user_id = current_user
    IN
    IF login_required(b) THEN Refused(b, "login_required")
    ELSE IF ~validate_csrf_of(b, form.csrf_token) THEN Untouched(b, "csrf")
    ELSE IF current_user = NULL THEN Refused(b, "login_required")
    ELSE IF poll = NULL THEN Refused(b, "poll_not_found")
    ELSE IF ~can_manage THEN Refused(b, "forbidden")
    ELSE IF form.action = "unarchive"
    THEN Handled(users, update_archived(polls, poll, NULL, NULL),
                 login[b], FALSE, admin, "unarchived")
    ELSE Handled(users, update_archived(polls, poll, now, current_user),
                 login[b], FALSE, admin, "archived")

archive_poll(b, token, form) == respond(b, archive_poll_result(b, token, form))

----------------------------------------------------------------------------
(* Organizer mode: /poll/<token>/admin-login, /poll/<token>/admin-logout *)

\* POST /poll/<token>/admin-login
admin_login_result(token, form) ==
    LET poll == get_poll_by_token(token)
        code == strip(form.organizer_code)
    IN
    IF ~validate_csrf(form.csrf_token) THEN Untouched("b1", "csrf")
    ELSE IF poll = NULL THEN Untouched("b1", "poll_not_found")
    ELSE IF \/ code = <<>>
            \/ polls[poll].organizer_code_hash = <<>>
            \/ ~check_password_hash(polls[poll].organizer_code_hash, code)
    THEN Untouched("b1", "bad_code")
    ELSE Handled(users, polls, login["b1"], FALSE, admin \cup {poll}, "organizer_on")

admin_login(token, form) == respond("b1", admin_login_result(token, form))

\* POST /poll/<token>/admin-logout
admin_logout_result(token, form_token) ==
    LET poll == get_poll_by_token(token)
    IN
    IF ~validate_csrf(form_token) THEN Untouched("b1", "csrf")
    ELSE IF poll = NULL THEN Untouched("b1", "poll_not_found")
    ELSE Handled(users, polls, login["b1"], FALSE, admin \ {poll}, "organizer_off")

admin_logout(token, form_token) == respond("b1", admin_logout_result(token, form_token))

----------------------------------------------------------------------------
(* User administration with requests in flight: the SELECTs of a toggle    *)
(* handler and its UPDATE are separate statements, each in autocommit or   *)
(* in its own short transaction                                            *)

NoToggle == [kind |-> "none"]

\* the handler up to its UPDATE: the checks read the committed table
begin_toggle(b, kind, user_id, form_token) ==
    /\ pend[b] = NoToggle
    /\ LET refusal == IF kind = "active"
                      THEN toggle_active_refusal(b, user_id, form_token)
                      ELSE toggle_admin_refusal(b, user_id, form_token)
           new_value == IF kind = "active"
                        THEN ~users[user_id].is_active
                        ELSE ~users[user_id].is_admin
       IN  IF refusal # ""
           THEN respond(b, toggle_refused(b, refusal))
           ELSE /\ pend' = [pend EXCEPT ![b] =
                        [kind |-> kind, user_id |-> user_id, new_value |-> new_value]]
                /\ UNCHANGED <<polls, slots, votes, now, csrf, voter, resp, conn,
                               lock, seen, users, login, admin, csrf2,
                               auth_enabled, weather_vars>>

\* the UPDATE and commit of the handler, then its redirect
finish_toggle(b) ==
    /\ pend[b] # NoToggle
    /\ users' = IF pend[b].kind = "active"
                THEN update_is_active(users, pend[b].user_id, pend[b].new_value)
                ELSE update_is_admin(users, pend[b].user_id, pend[b].new_value)
    /\ pend' = [pend EXCEPT ![b] = NoToggle]
    /\ resp' = IF pend[b].kind = "active" THEN "status_updated" ELSE "role_updated"
    /\ UNCHANGED <<polls, slots, votes, now, csrf, voter, conn, lock, seen,
                   login, admin, csrf2, auth_enabled, weather_vars>>

----------------------------------------------------------------------------
(* Requests in flight: one sqlite3 connection each (get_db), no isolation   *)
(* level given, so the first write statement opens a transaction that holds *)
(* the database write lock until commit() or close().                       *)

Reqs == {"r1", "r2"}
NoReq == "none"

Idle == [pc |-> "idle", token |-> "", form |-> <<>>, dup |-> FALSE,
         done |-> 0, work |-> EmptyBag, old |-> EmptyBag]

\* variant: connections opened with isolation_level=None, every statement
\* is visible at once
read_uncommitted(committed, work) == work

\* what a SELECT of another connection reads while a transaction is open
read_committed(committed, work) == committed

\* the votes table as a SELECT of a connection outside any transaction reads it
table_read ==
    IF lock = NoReq THEN votes ELSE read_committed(votes, conn[lock].work)

\* the rows of a table that a WHERE clause selects
RowsWhere(bag, Cond(_)) ==
    LET keep == {v \in DOMAIN bag : Cond(v)} IN [v \in keep |-> bag[v]]

req_poll(r) == get_poll_by_token(conn[r].token)

req_statements(r) ==
    write_statements(req_poll(r),
                     normalize_response_mode(polls[req_poll(r)].response_mode),
                     form_name(conn[r].form), form_email(conn[r].form),
                     conn[r].form, conn[r].dup)

release(r) == IF lock = r THEN NoReq ELSE lock

\* the handler up to the duplicate check
begin_vote(r, token, form) ==
    /\ conn[r].pc = "idle"
    /\ LET early == early_return(table_read, token, form)
       IN  IF early # ""
           THEN /\ resp' = early
                /\ UNCHANGED conn
           ELSE /\ conn' = [conn EXCEPT ![r] =
                       [Idle EXCEPT !.pc = "write", !.token = token, !.form = form,
                            !.dup = duplicate_vote(table_read, get_poll_by_token(token),
                                                   form_name(form), form_email(form))]]
                /\ UNCHANGED resp
    /\ UNCHANGED <<polls, slots, votes, now, csrf, voter, lock, seen, account_vars, weather_vars>>

\* the next write statement; the first one takes the write lock, which is
\* free only when no other connection has a transaction open
execute_next(r) ==
    /\ conn[r].pc = "write"
    /\ conn[r].done < Len(req_statements(r))
    /\ lock \in {NoReq, r}
    /\ LET stmt == req_statements(r)[conn[r].done + 1]
           before == IF lock = r THEN conn[r].work ELSE votes
           mine(v) == SameBallotRow(v, req_poll(r), form_name(conn[r].form),
                                    form_email(conn[r].form))
       IN  conn' = [conn EXCEPT
                       ![r].done = @ + 1,
                       ![r].work = execute(before, stmt, req_poll(r),
                                           form_name(conn[r].form),
                                           form_email(conn[r].form)),
                       ![r].old = IF stmt.op = "delete"
                                  THEN RowsWhere(before, mine) ELSE @]
    /\ lock' = r
    /\ UNCHANGED <<polls, slots, votes, now, csrf, voter, resp, seen, account_vars, weather_vars>>

\* a write statement or the commit raises sqlite3.Error ("database is
\* locked" after the busy timeout, among others): HTTP 500, then close_db
raise_error(r) ==
    /\ conn[r].pc = "write"
    /\ votes' = IF lock = r THEN close_db(votes, conn[r].work) ELSE votes
    /\ lock' = release(r)
    /\ conn' = [conn EXCEPT ![r] = Idle]
    /\ resp' = "error500"
    /\ UNCHANGED <<polls, slots, now, csrf, voter, seen, account_vars, weather_vars>>

\* after the statements: the early return on a bad single choice, or
\* db.commit() and the session entry
finish_vote(r) ==
    /\ conn[r].pc = "write"
    /\ conn[r].done = Len(req_statements(r))
    /\ lock \in {NoReq, r}
    /\ LET bad == selection_error(req_poll(r), conn[r].form)
           work == IF lock = r THEN conn[r].work ELSE votes
       IN  IF bad # ""
           THEN /\ votes' = close_db(votes, work)
                /\ resp' = bad
                /\ UNCHANGED voter
           ELSE /\ votes' = commit(votes, work)
                /\ resp' = IF conn[r].dup THEN "updated" ELSE "recorded"
                /\ voter' = remember_voter(req_poll(r), conn[r].form)
    /\ lock' = release(r)
    /\ conn' = [conn EXCEPT ![r] = Idle]
    /\ UNCHANGED <<polls, slots, now, csrf, seen, account_vars, weather_vars>>

\* the SELECT of participant_rows, made by a poll view of another session
read_participants(token) ==
    /\ get_poll_by_token(token) # NULL
    /\ LET in_poll(v) == v.poll_id = get_poll_by_token(token)
       IN  seen' = [lock |-> lock, rows |-> RowsWhere(table_read, in_poll)]
    /\ UNCHANGED <<polls, slots, votes, now, csrf, voter, resp, conn, lock, account_vars, weather_vars>>

----------------------------------------------------------------------------
(* Weather tools: src/web_app.py (Flask) and src/app.py (tkinter)          *)

\* a JSON value decoded by response.json(): Python int, float (v + frac/10),
\* bool (v is 0 or 1), str, None (also: key absent) or list
Json(t, v, frac) == [t |-> t, v |-> v, frac |-> frac]
JsonInt(n) == Json("int", n, 0)
JsonFloat(n, frac) == Json("float", n, frac)
JsonBool(n) == Json("bool", n, 0)
JsonStr == Json("str", 0, 0)
JsonNone == Json("null", 0, 0)
JsonList == Json("list", 0, 0)

WEATHER_CODES ==
    (0 :> "Ciel dégagé") @@ (1 :> "Principalement dégagé")
    @@ (2 :> "Partiellement nuageux") @@ (3 :> "Couvert")
    @@ (45 :> "Brouillard") @@ (48 :> "Brouillard givrant")
    @@ (51 :> "Bruine légère") @@ (53 :> "Bruine modérée")
    @@ (55 :> "Bruine dense") @@ (56 :> "Bruine verglaçante légère")
    @@ (57 :> "Bruine verglaçante dense") @@ (61 :> "Pluie faible")
    @@ (63 :> "Pluie modérée") @@ (65 :> "Pluie forte")
    @@ (66 :> "Pluie verglaçante légère") @@ (67 :> "Pluie verglaçante forte")
    @@ (71 :> "Neige faible") @@ (73 :> "Neige modérée")
    @@ (75 :> "Neige forte") @@ (77 :> "Grains de neige")
    @@ (80 :> "Averses faibles") @@ (81 :> "Averses modérées")
    @@ (82 :> "Averses violentes") @@ (85 :> "Averses de neige faibles")
    @@ (86 :> "Averses de neige fortes") @@ (95 :> "Orage")
    @@ (96 :> "Orage avec grêle faible") @@ (99 :> "Orage avec grêle forte")

Unavailable == "Description indisponible"
TypeError == "TypeError: unhashable type"

\* isinstance(raw, int): bool is a subclass of int
isinstance_int(raw) == raw.t \in {"int", "bool"}

\* WEATHER_CODES.get(key, default): a key is found by hash and ==, so True
\* finds 1 and 3.0 finds 3; a list cannot be hashed
WEATHER_CODES_get(key, default) ==
    IF key.t = "list" THEN TypeError
    ELSE IF /\ key.t \in {"int", "bool", "float"}
            /\ key.frac = 0
            /\ key.v \in DOMAIN WEATHER_CODES
    THEN WEATHER_CODES[key.v]
    ELSE default

\* code = raw_code if isinstance(raw_code, int) else -1
code_or_minus_one(raw) == IF isinstance_int(raw) THEN raw ELSE JsonInt(-1)

\* the label of the web tool, for current and daily codes alike
web_weather_label(raw) == WEATHER_CODES_get(code_or_minus_one(raw), Unavailable)

\* the labels of the desktop tool: the current code is looked up as it is
desktop_current_label(raw) == WEATHER_CODES_get(raw, Unavailable)
desktop_daily_label(raw) == WEATHER_CODES_get(code_or_minus_one(raw), Unavailable)

\* format_place_label(place) / _format_place_label(place)
format_place_label(place) ==
    IF place.admin1 # <<>>
    THEN place.name \o <<",", " ">> \o place.admin1 \o <<",", " ">> \o place.country
    ELSE place.name \o <<",", " ">> \o place.country

\* one requests.get() with raise_for_status() and response.json(): the
\* answer of the API, or a RequestException
Failure == [ok |-> FALSE]
Places(results) == [ok |-> TRUE, results |-> results]
Forecast(current, daily) == [ok |-> TRUE, current |-> current, daily |-> daily]

\* variant: a failed call is made a second time
Call(api, upstream) == [api |-> api, ok |-> upstream.ok]

get_geocoding_again(upstream) ==
    [calls |-> IF upstream.ok
               THEN <<Call("geocoding", upstream)>>
               ELSE <<Call("geocoding", upstream), Call("geocoding", upstream)>>,
     answer |-> upstream]

get_geocoding(upstream) ==
    [calls |-> <<Call("geocoding", upstream)>>, answer |-> upstream]

get_forecast(upstream) ==
    [calls |-> <<Call("forecast", upstream)>>, answer |-> upstream]

MinQuery == 2

\* the answer of an endpoint, and the API calls made to compute it
Answer(route, status, calls, location, current, daily) ==
    [route |-> route, status |-> status, calls |-> calls,
     location |-> location, current |-> current, daily |-> daily]

NoAnswer == Answer("none", 0, <<>>, <<>>, "", <<>>)

\* GET /api/suggest
suggest_result(q, geo) ==
    LET query == strip(q)
        looked == get_geocoding(geo)
    IN  IF Len(query) < MinQuery
        THEN Answer("suggest", 200, <<>>, <<>>, "", <<>>)
        ELSE IF ~looked.answer.ok
        THEN Answer("suggest", 502, looked.calls, <<>>, "", <<>>)
        ELSE Answer("suggest", 200, looked.calls,
                    [k \in 1..Len(looked.answer.results) |->
                        format_place_label(looked.answer.results[k])],
                    "", <<>>)

suggest(q, geo) ==
    /\ wx' = suggest_result(q, geo)
    /\ UNCHANGED <<polls, slots, votes, now, csrf, voter, resp, conn, lock, seen,
                   account_vars, gui>>

\* GET /api/weather
weather_result(req, geo, fc) ==
    LET city == strip(req.city)
        looked == get_geocoding(geo)
        fetched == get_forecast(fc)
        place == IF req.coords
                 THEN [name |-> IF city # <<>> THEN city ELSE <<"V">>,
                       admin1 |-> <<>>, country |-> <<"P">>]
                 ELSE looked.answer.results[1]
        before == IF req.coords THEN <<>> ELSE looked.calls
    IN
    IF city = <<>> /\ ~req.coords
    THEN Answer("weather", 400, <<>>, <<>>, "", <<>>)
    ELSE IF ~req.coords /\ ~looked.answer.ok
    THEN Answer("weather", 502, looked.calls, <<>>, "", <<>>)
    ELSE IF ~req.coords /\ looked.answer.results = <<>>
    THEN Answer("weather", 404, looked.calls, <<>>, "", <<>>)
    ELSE IF ~fetched.answer.ok
    THEN Answer("weather", 502, before \o fetched.calls, <<>>, "", <<>>)
    ELSE Answer("weather", 200, before \o fetched.calls,
                format_place_label(place),
                web_weather_label(fetched.answer.current),
                [k \in 1..Len(fetched.answer.daily) |->
                    web_weather_label(fetched.answer.daily[k])])

weather(req, geo, fc) ==
    /\ wx' = weather_result(req, geo, fc)
    /\ UNCHANGED <<polls, slots, votes, now, csrf, voter, resp, conn, lock, seen,
                   account_vars, gui>>

----------------------------------------------------------------------------
(* Desktop weather tool (src/app.py): the Tk main loop runs one callback at *)
(* a time; lookups run in threads that post their result with after(0)      *)

NoPlace == [name |-> <<>>, admin1 |-> <<>>, country |-> <<>>]
NoJob == 0
MaxLookups == 3

\* the state after WeatherApp.__init__
NewWeatherApp ==
    [text |-> <<>>,                 \* city_var
     selected_place |-> NoPlace,
     suggestion_places |-> <<>>,
     mapped |-> FALSE,              \* suggestions_listbox is packed
     suggestion_job |-> NoJob,      \* id of the last after(300, ...) job
     suggestion_request_id |-> 0,
     timers |-> {},                 \* after(300, ...) jobs not yet run
     threads |-> {},                \* worker threads waiting for the API
     queue |-> <<>>,                \* after(0, ...) callbacks not yet run
     busy |-> FALSE,                \* search_btn is disabled
     status |-> "ready",
     location |-> <<>>,
     current |-> "",
     daily |-> <<>>]

\* _hide_suggestions()
hide_suggestions(app) ==
    [app EXCEPT !.suggestion_places = <<>>, !.mapped = FALSE]

\* variant: root.after_cancel() left out
after_cancel_nothing(timers, job) == timers

\* root.after_cancel(job)
after_cancel(timers, job) == {t \in timers : t.request_id # job}

\* _on_city_input(), run by the write trace of city_var when the user edits
\* the field (suppress_autocomplete is False)
on_city_input(app, text) ==
    LET query == strip(text)
        typed == [app EXCEPT !.text = text, !.selected_place = NoPlace]
        cancelled ==
            IF app.suggestion_job # NoJob
            THEN [typed EXCEPT !.timers = after_cancel(app.timers, app.suggestion_job),
                               !.suggestion_job = NoJob]
            ELSE typed
        request_id == app.suggestion_request_id + 1
    IN  IF Len(query) < MinQuery
        THEN hide_suggestions(cancelled)
        ELSE [cancelled EXCEPT
                !.suggestion_request_id = request_id,
                !.suggestion_job = request_id,
                !.timers = cancelled.timers \cup
                    {[query |-> query, request_id |-> request_id]}]

key(text) ==
    /\ text # gui.text
    /\ gui.suggestion_request_id < MaxLookups
    /\ gui' = on_city_input(gui, text)
    /\ UNCHANGED <<polls, slots, votes, now, csrf, voter, resp, conn, lock, seen,
                   account_vars, wx>>

\* the debounce delay has passed: _load_suggestions() starts a thread
load_suggestions(t) ==
    /\ t \in gui.timers
    /\ gui' = [gui EXCEPT
                !.timers = gui.timers \ {t},
                !.threads = gui.threads \cup
                    {[target |-> "_load_suggestions_thread", query |-> t.query,
                      request_id |-> t.request_id, selected_place |-> NoPlace]}]
    /\ UNCHANGED <<polls, slots, votes, now, csrf, voter, resp, conn, lock, seen,
                   account_vars, wx>>

Callback(fn, query, request_id, places, place, forecast) ==
    [fn |-> fn, query |-> query, request_id |-> request_id, places |-> places,
     place |-> place, forecast |-> forecast]

\* _load_suggestions_thread(): the geocoding call returns or raises
load_suggestions_thread(th, geo) ==
    /\ th \in gui.threads
    /\ th.target = "_load_suggestions_thread"
    /\ gui' = [gui EXCEPT
                !.threads = gui.threads \ {th},
                !.queue = Append(gui.queue,
                    IF get_geocoding(geo).answer.ok
                    THEN Callback("_show_suggestions", th.query, th.request_id,
                                  geo.results, NoPlace, Failure)
                    ELSE Callback("_hide_suggestions", <<>>, 0, <<>>, NoPlace, Failure))]
    /\ UNCHANGED <<polls, slots, votes, now, csrf, voter, resp, conn, lock, seen,
                   account_vars, wx>>

\* variant: the request id of the response is not compared
show_suggestions_any_id(app, query, request_id, places) ==
    IF query # strip(app.text) THEN app
    ELSE IF places = <<>> THEN hide_suggestions(app)
    ELSE [app EXCEPT !.suggestion_places = places, !.mapped = TRUE]

\* _show_suggestions(query, request_id, places)
show_suggestions(app, query, request_id, places) ==
    IF request_id # app.suggestion_request_id \/ query # strip(app.text) THEN app
    ELSE IF places = <<>> THEN hide_suggestions(app)
    ELSE [app EXCEPT !.suggestion_places = places, !.mapped = TRUE]

\* _update_ui(place, forecast): the label of the current code is computed
\* first, so a TypeError leaves every widget as it was
update_ui(app, place, forecast) ==
    IF desktop_current_label(forecast.current) = TypeError
    THEN [app EXCEPT !.status = "callback_exception"]
    ELSE [app EXCEPT
            !.location = format_place_label(place),
            !.current = desktop_current_label(forecast.current),
            !.daily = [k \in 1..Len(forecast.daily) |->
                          desktop_daily_label(forecast.daily[k])],
            !.status = "updated",
            !.busy = FALSE]

\* _handle_error(message)
handle_error(app) == [app EXCEPT !.status = "failed", !.busy = FALSE]

\* the main loop runs the oldest after(0, ...) callback
run_callback ==
    /\ gui.queue # <<>>
    /\ LET cb == Head(gui.queue)
           app == [gui EXCEPT !.queue = Tail(gui.queue)]
       IN  gui' = CASE cb.fn = "_show_suggestions" ->
                        show_suggestions(app, cb.query, cb.request_id, cb.places)
                    [] cb.fn = "_hide_suggestions" -> hide_suggestions(app)
                    [] cb.fn = "_update_ui" -> update_ui(app, cb.place, cb.forecast)
                    [] OTHER -> handle_error(app)
    /\ UNCHANGED <<polls, slots, votes, now, csrf, voter, resp, conn, lock, seen,
                   account_vars, wx>>

\* _on_suggestion_select(): city_var is set with suppress_autocomplete on,
\* so _on_city_input() returns at once
on_suggestion_select(index) ==
    /\ gui.mapped
    /\ index \in 1..Len(gui.suggestion_places)
    /\ gui' = hide_suggestions(
                [gui EXCEPT !.selected_place = gui.suggestion_places[index],
                            !.text = format_place_label(gui.suggestion_places[index])])
    /\ UNCHANGED <<polls, slots, votes, now, csrf, voter, resp, conn, lock, seen,
                   account_vars, wx>>

\* <Escape> in the field or in the list
escape ==
    /\ gui' = hide_suggestions(gui)
    /\ UNCHANGED <<polls, slots, votes, now, csrf, voter, resp, conn, lock, seen,
                   account_vars, wx>>

\* fetch_weather(), from the search button
fetch_weather ==
    /\ ~gui.busy
    /\ LET city == strip(gui.text)
           selected_place ==
               IF /\ gui.selected_place # NoPlace
                  /\ city = format_place_label(gui.selected_place)
               THEN gui.selected_place ELSE NoPlace
       IN  gui' = IF city = <<>>
                  THEN [gui EXCEPT !.status = "city_missing"]
                  ELSE [hide_suggestions(gui) EXCEPT
                           !.busy = TRUE,
                           !.status = "searching",
                           !.threads = gui.threads \cup
                               {[target |-> "_fetch_weather_thread", query |-> city,
                                 request_id |-> 0, selected_place |-> selected_place]}]
    /\ UNCHANGED <<polls, slots, votes, now, csrf, voter, resp, conn, lock, seen,
                   account_vars, wx>>

\* _fetch_weather_thread(): geocoding unless a suggestion was selected, then
\* the forecast; any exception becomes _handle_error
fetch_weather_thread(th, geo, fc) ==
    /\ th \in gui.threads
    /\ th.target = "_fetch_weather_thread"
    /\ LET looked == get_geocoding(geo).answer
           found == th.selected_place # NoPlace \/ (looked.ok /\ looked.results # <<>>)
           place == IF th.selected_place # NoPlace
                    THEN th.selected_place ELSE looked.results[1]
       IN  gui' = [gui EXCEPT
                !.threads = gui.threads \ {th},
                !.queue = Append(gui.queue,
                    IF found /\ get_forecast(fc).answer.ok
                    THEN Callback("_update_ui", <<>>, 0, <<>>, place, fc)
                    ELSE Callback("_handle_error", <<>>, 0, <<>>, NoPlace, Failure))]
    /\ UNCHANGED <<polls, slots, votes, now, csrf, voter, resp, conn, lock, seen,
                   account_vars, wx>>

----------------------------------------------------------------------------
(* Inputs *)

Al == <<"A", "l">>
al == <<"a", "l">>
Mail == <<"A", "@", "x", ".", "y">>
Code == <<"x", "x", "x", "x", "x", "x", "x", "x">>

\* secrets.token_urlsafe(6) draws the token; the model has few tokens, so
\* the UNIQUE constraint on polls.token can be hit
Tokens == {"t1"}
TwoTokens == {"t1", "t2"}

CreateForm(mode, lines) ==
    [csrf_token |-> "tok", rgpd_creator |-> TRUE, title |-> <<"x">>,
     creator_name |-> Al, response_mode |-> mode, deadline_at |-> NULL,
     organizer_code |-> Code, slots |-> lines]

SingleBa == CreateForm("single", << <<" ", "B">>, <<" ">>, <<"a">> >>)
MultiAa == CreateForm("availability", << <<"a">>, <<"a", " ">> >>)

GoodCreateForms == {SingleBa, MultiAa}

BadCreateForms ==
    { [SingleBa EXCEPT !.csrf_token = ""],
      [SingleBa EXCEPT !.rgpd_creator = FALSE],
      [SingleBa EXCEPT !.slots = << <<"a">>, <<" ">> >>],
      [MultiAa EXCEPT !.organizer_code = <<"x">>] }

CreateForms == GoodCreateForms \cup BadCreateForms

\* selected_slot (radio, -1: absent or not a number) and selected_slots
\* (checkboxes); a poll of the model with two options has slot ids that are
\* consecutive, so ids beyond them belong to no poll or to another poll
Selection(one, many) == [selected_slot |-> one, selected_slots |-> many]

Selections(base) ==
    { Selection(-1, {}),
      Selection(base + 1, {base + 1}),
      Selection(base + 2, {base + 2}),
      Selection(base + 1, {base + 1, base + 2}),
      Selection(base + 3, {base + 2, base + 3, -1}) }

VoteForm(name, email, replace, sel) ==
    [csrf_token |-> "tok", rgpd_vote |-> TRUE, participant_name |-> name,
     participant_email |-> email, replace_existing_vote |-> replace,
     selected_slot |-> sel.selected_slot, selected_slots |-> sel.selected_slots]

GoodVoteForms(sels) ==
    { VoteForm(n, e, r, s) :
        n \in {Al, al}, e \in {<<>>, Mail}, r \in BOOLEAN, s \in sels }

PlainVote == VoteForm(Al, <<>>, FALSE, Selection(1, {1}))

BadVoteForms ==
    { [PlainVote EXCEPT !.csrf_token = ""],
      [PlainVote EXCEPT !.csrf_token = "bad"],
      [PlainVote EXCEPT !.rgpd_vote = FALSE],
      [PlainVote EXCEPT !.participant_name = <<" ">>],
      [PlainVote EXCEPT !.participant_email = <<"a", "@", "x">>],
      [PlainVote EXCEPT !.participant_name = <<" ", "a", "l", " ">>,
                        !.participant_email = <<" ", "a", "@", "x", ".", "y">>,
                        !.replace_existing_vote = TRUE] }

VoteForms == GoodVoteForms(Selections(0)) \cup BadVoteForms

\* submissions to two single-choice polls: one option of each poll
TwoPollVoteForms ==
    { VoteForm(n, e, r, Selection(k, {})) :
        n \in {Al, al}, e \in {<<>>, Mail}, r \in BOOLEAN, k \in {1, 3} }

----------------------------------------------------------------------------
(* Specification: requests handled one at a time *)

NoRead == [lock |-> NoReq, rows |-> EmptyBag]

\* the state after create_app() and init_db() on an empty database
Deployed(SONDAGE_AUTH_ENABLED) ==
    /\ polls = <<>>
    /\ slots = <<>>
    /\ votes = EmptyBag
    /\ now = 1
    /\ csrf = ""
    /\ voter = <<>>
    /\ resp = "start"
    /\ conn = [r \in Reqs |-> Idle]
    /\ lock = NoReq
    /\ seen = NoRead
    /\ users = <<>>
    /\ login = [b \in Browsers |-> NULL]
    /\ admin = {}
    /\ csrf2 = ""
    /\ pend = [b \in Browsers |-> NoToggle]
    /\ auth_enabled = SONDAGE_AUTH_ENABLED
    /\ wx = NoAnswer
    /\ gui = NewWeatherApp

\* SONDAGE_AUTH_ENABLED defaults to "0"
Init == Deployed(FALSE)

Next ==
    \/ \E token \in Tokens, form \in CreateForms : create_poll(token, form)
    \/ \E token \in Tokens \cup {"t0"} : view_poll(token)
    \/ \E token \in Tokens \cup {"t0"}, form \in VoteForms : vote(token, form)

Spec == Init /\ [][Next]_vars

----------------------------------------------------------------------------
(* Specification: requests interleaved statement by statement *)

ConcurrentVoteForms ==
    { VoteForm(Al, e, r, s) :
        e \in {<<>>, Mail}, r \in BOOLEAN,
        s \in {Selection(1, {1}), Selection(2, {1, 2})} }

NextConcurrent ==
    \/ \E token \in Tokens, form \in GoodCreateForms : create_poll(token, form)
    \/ \E token \in Tokens : view_poll(token)
    \/ \E r \in Reqs, token \in Tokens, form \in ConcurrentVoteForms :
          begin_vote(r, token, form)
    \/ \E r \in Reqs : execute_next(r)
    \/ \E r \in Reqs : raise_error(r)
    \/ \E r \in Reqs : finish_vote(r)

SpecConcurrent == Init /\ [][NextConcurrent]_vars

----------------------------------------------------------------------------
(* Specification: poll views reading while ballots are replaced *)

ReplaceVoteForms ==
    { VoteForm(Al, <<>>, r, s) :
        r \in BOOLEAN,
        s \in {Selection(1, {1}), Selection(2, {1, 2}), Selection(-1, {})} }

NextReplaceRead ==
    \/ \E token \in Tokens, form \in GoodCreateForms : create_poll(token, form)
    \/ \E token \in Tokens : view_poll(token)
    \/ \E r \in Reqs, token \in Tokens, form \in ReplaceVoteForms :
          begin_vote(r, token, form)
    \/ \E r \in Reqs : execute_next(r)
    \/ \E r \in Reqs : raise_error(r)
    \/ \E r \in Reqs : finish_vote(r)
    \/ \E token \in Tokens : read_participants(token)

SpecReplaceRead == Init /\ [][NextReplaceRead]_vars

----------------------------------------------------------------------------
(* Specification: two polls side by side *)

NextTwoPolls ==
    \/ \E token \in TwoTokens : create_poll(token, SingleBa)
    \/ \E token \in TwoTokens : view_poll(token)
    \/ \E token \in TwoTokens, form \in TwoPollVoteForms : vote(token, form)

SpecTwoPolls == Init /\ [][NextTwoPolls]_vars

----------------------------------------------------------------------------
(* Specification: polls with a deadline, and a clock *)

Deadline == 2

DeadlineCreateForms == {[SingleBa EXCEPT !.deadline_at = Deadline], MultiAa}

DeadlineVoteForms ==
    { VoteForm(Al, e, r, s) :
        e \in {<<>>, Mail}, r \in BOOLEAN,
        s \in {Selection(1, {1}), Selection(2, {1, 2})} }
    \cup { [PlainVote EXCEPT !.csrf_token = "bad"] }

NextDeadline ==
    \/ \E token \in Tokens, form \in DeadlineCreateForms : create_poll(token, form)
    \/ \E token \in Tokens : view_poll(token)
    \/ \E token \in Tokens, form \in DeadlineVoteForms : vote(token, form)
    \/ tick

SpecDeadline == Init /\ [][NextDeadline]_vars

----------------------------------------------------------------------------
(* Specification: names of any length *)

\* a name one character longer than the cap
LongName == [i \in 1..NameCap + 1 |-> IF i = NameCap + 1 THEN "b" ELSE "a"]

\* a name one character longer than the cap, a blank in the last place kept
GapName ==
    [i \in 1..NameCap + 1 |->
        IF i = NameCap + 1 THEN "b" ELSE IF i = NameCap THEN " " ELSE "a"]

NameVoteForms ==
    { VoteForm(n, e, r, Selection(1, {1})) :
        n \in {Al, <<>>, <<" ">>, LongName, <<" ">> \o LongName \o <<" ">>, GapName},
        e \in {<<>>, Mail},
        r \in BOOLEAN }

NextNames ==
    \/ \E token \in Tokens, form \in GoodCreateForms : create_poll(token, form)
    \/ \E token \in Tokens : view_poll(token)
    \/ \E token \in Tokens, form \in NameVoteForms : vote(token, form)

SpecNames == Init /\ [][NextNames]_vars

----------------------------------------------------------------------------
(* Specification: a deployment with accounts (SONDAGE_AUTH_ENABLED=1), one *)
(* browser that registers, logs in, creates a poll, votes, enters and      *)
(* leaves organizer mode and archives                                      *)

InitAuth == Deployed(TRUE)

Password == <<"p", "a", "s", "s", "w", "o", "r", "d">>
Mail2 == <<"b", "@", "x", ".", "y">>

\* the token a page rendered in browser b puts in its forms
page_token(b) == IF b = "b1" THEN "tok" ELSE "tok2"

RegisterForm(b, email, password) ==
    [csrf_token |-> page_token(b), email |-> email, password |-> password,
     password_confirm |-> password, rgpd |-> TRUE]

LoginForm(b, email, password) ==
    [csrf_token |-> page_token(b), email |-> email, password |-> password,
     rgpd |-> TRUE]

UserForm(b, email, is_active, is_admin) ==
    [csrf_token |-> page_token(b), email |-> email, password |-> Password,
     is_active |-> is_active, is_admin |-> is_admin]

ArchiveForm(token, action) == [csrf_token |-> token, action |-> action]

CodeForm(token, code) == [csrf_token |-> token, organizer_code |-> code]

RegisterForms(b) ==
    { RegisterForm(b, Mail, Password), RegisterForm(b, Mail2, Password),
      RegisterForm(b, Mail2, <<"p">>),
      [RegisterForm(b, Mail2, Password) EXCEPT !.csrf_token = "bad"] }

LoginForms(b) ==
    { LoginForm(b, Mail, Password), LoginForm(b, Mail2, Password),
      LoginForm(b, Mail, <<"p">>),
      [LoginForm(b, Mail, Password) EXCEPT !.csrf_token = ""] }

FormTokens(b) == {page_token(b), "", "bad"}

ArchiveForms ==
    {ArchiveForm(t, a) : t \in {"tok", "bad"}, a \in {"archive", "unarchive"}}

CodeForms ==
    { CodeForm("tok", Code), CodeForm("tok", <<" ">> \o Code),
      CodeForm("tok", <<"y">>), CodeForm("", Code) }

OrganizerCreateForms ==
    {SingleBa, MultiAa, [SingleBa EXCEPT !.csrf_token = "bad"]}

OrganizerVoteForms ==
    { VoteForm(Al, <<>>, FALSE, Selection(1, {1})),
      VoteForm(al, Mail, TRUE, Selection(2, {1, 2})),
      [PlainVote EXCEPT !.csrf_token = "bad"] }

NextOrganizer ==
    \/ home("b1")
    \/ \E form \in RegisterForms("b1") : auth_register("b1", form)
    \/ \E form \in LoginForms("b1") : auth_login("b1", form)
    \/ \E form_token \in FormTokens("b1") : auth_logout("b1", form_token)
    \/ \E token \in Tokens, form \in OrganizerCreateForms : create_poll(token, form)
    \/ \E token \in Tokens \cup {"t0"} : view_poll(token)
    \/ \E token \in Tokens, form \in OrganizerVoteForms : vote(token, form)
    \/ \E token \in Tokens, form \in CodeForms : admin_login(token, form)
    \/ \E token \in Tokens, form_token \in FormTokens("b1") :
          admin_logout(token, form_token)
    \/ \E token \in Tokens, form \in ArchiveForms : archive_poll("b1", token, form)
    \/ my_polls("b1")

SpecOrganizer == InitAuth /\ [][NextOrganizer]_vars

----------------------------------------------------------------------------
(* Specification: the two weather tools given the same answers of the API  *)

\* weather_code values the forecast API may send: codes of the table, an
\* integer outside it, and JSON values that are not integers
Codes ==
    { JsonInt(0), JsonInt(3), JsonInt(99), JsonInt(12345), JsonFloat(3, 0),
      JsonFloat(3, 5), JsonBool(1), JsonStr, JsonNone, JsonList }

PlaceAb == [name |-> <<"a", "b">>, admin1 |-> <<>>, country |-> <<"F">>]
PlaceAc == [name |-> <<"a", "c">>, admin1 |-> <<"R">>, country |-> <<"F">>]

GeoAnswers == {Failure, Places(<<>>), Places(<<PlaceAb>>), Places(<<PlaceAb, PlaceAc>>)}

\* one current code and two days, the first with the same code
Forecasts == {Forecast(c, <<c, JsonInt(61)>>) : c \in Codes}

ForecastAnswers == {Failure} \cup Forecasts

WeatherRequest(city, coords) == [city |-> city, coords |-> coords]

WeatherRequests ==
    {WeatherRequest(c, k) : c \in {<<>>, <<" ", "a", "b">>, <<"a", "c">>}, k \in BOOLEAN}

\* the web tool is asked by coordinates, the desktop tool by city name
NextForecast ==
    \/ \E city \in {<<>>, <<"a", "b">>}, fc \in ForecastAnswers :
          weather(WeatherRequest(city, TRUE), Failure, fc)
    \/ \E text \in {<<>>, <<"a", "b">>} : key(text)
    \/ fetch_weather
    \/ \E th \in gui.threads, geo \in GeoAnswers, fc \in ForecastAnswers :
          fetch_weather_thread(th, geo, fc)
    \/ run_callback

SpecForecast == Init /\ [][NextForecast]_vars

----------------------------------------------------------------------------
(* Specification: requests to the weather web tool, the API answering or   *)
(* failing each call                                                       *)

Queries == {<<>>, <<"a">>, <<" ", "a", " ">>, <<"a", "b">>, <<" ", "a", "b">>}

\* forecasts of one day, the code of the day and the current one differing
WebForecasts ==
    {Forecast(c, <<d>>) : c \in Codes, d \in Codes \cup {JsonInt(45), JsonInt(61)}}

NextWeb ==
    \/ \E q \in Queries, geo \in GeoAnswers : suggest(q, geo)
    \/ \E req \in WeatherRequests, geo \in GeoAnswers,
          fc \in {Failure} \cup WebForecasts :
          weather(req, geo, fc)

SpecWeb == Init /\ [][NextWeb]_vars

----------------------------------------------------------------------------
(* Specification: two browsers, accounts created by registration and by an *)
(* administrator, toggle requests in flight at the same time               *)

UserForms(b) ==
    {UserForm(b, Mail2, a, d) : a \in BOOLEAN, d \in BOOLEAN}
    \cup {[UserForm(b, Mail2, TRUE, TRUE) EXCEPT !.csrf_token = "bad"]}

UserIds == 1..3

NextAdmins ==
    \/ \E b \in Browsers : home(b)
    \/ \E b \in Browsers : \E form \in RegisterForms(b) : auth_register(b, form)
    \/ \E b \in Browsers : \E form \in LoginForms(b) : auth_login(b, form)
    \/ \E b \in Browsers : \E form \in UserForms(b) : admin_create_user(b, form)
    \/ \E b \in Browsers, kind \in {"active", "admin"}, user_id \in UserIds :
          \E form_token \in FormTokens(b) :
          begin_toggle(b, kind, user_id, form_token)
    \/ \E b \in Browsers : finish_toggle(b)

SpecAdmins == InitAuth /\ [][NextAdmins]_vars

----------------------------------------------------------------------------
(* Specification: two browsers, requests handled one at a time; accounts   *)
(* are registered, created, activated and deactivated, promoted and        *)
(* demoted; polls are created, listed and archived                         *)

ArchiveFormsOf(b) ==
    {ArchiveForm(t, a) : t \in {page_token(b), "bad"}, a \in {"archive", "unarchive"}}

NextAccounts ==
    \/ \E b \in Browsers : home(b)
    \/ \E b \in Browsers : \E form \in RegisterForms(b) : auth_register(b, form)
    \/ \E b \in Browsers : \E form \in LoginForms(b) : auth_login(b, form)
    \/ \E b \in Browsers : \E form_token \in FormTokens(b) : auth_logout(b, form_token)
    \/ \E b \in Browsers : \E form \in UserForms(b) : admin_create_user(b, form)
    \/ \E b \in Browsers, user_id \in UserIds : \E form_token \in FormTokens(b) :
          admin_toggle_user_active(b, user_id, form_token)
    \/ \E b \in Browsers, user_id \in UserIds : \E form_token \in FormTokens(b) :
          admin_toggle_user_admin(b, user_id, form_token)
    \/ \E b \in Browsers : admin_users(b)
    \/ \E b \in Browsers : my_polls(b)
    \/ \E token \in Tokens : create_poll(token, SingleBa)
    \/ \E b \in Browsers, token \in Tokens : \E form \in ArchiveFormsOf(b) :
          archive_poll(b, token, form)

SpecAccounts == InitAuth /\ [][NextAccounts]_vars

----------------------------------------------------------------------------
(* Specification: every POST of the poll application, with the token of    *)
(* the page, without token and with another token, from two browsers, in   *)
(* a deployment with and without SONDAGE_AUTH_ENABLED                      *)

InitEither == Deployed(TRUE) \/ Deployed(FALSE)

PostCreateForms == {SingleBa, [SingleBa EXCEPT !.csrf_token = ""]}

PostVoteForms == {PlainVote, [PlainVote EXCEPT !.csrf_token = "bad"]}

PostRegisterForms(b) ==
    { RegisterForm(b, Mail, Password),
      [RegisterForm(b, Mail2, Password) EXCEPT !.csrf_token = "bad"] }

PostLoginForms(b) ==
    { LoginForm(b, Mail, Password), LoginForm(b, Mail2, Password),
      [LoginForm(b, Mail, Password) EXCEPT !.csrf_token = ""] }

PostUserForms(b) ==
    { UserForm(b, Mail2, TRUE, TRUE),
      [UserForm(b, Mail2, TRUE, TRUE) EXCEPT !.csrf_token = "bad"] }

PostCodeForms == {CodeForm("tok", Code), CodeForm("", Code), CodeForm("bad", Code)}

PostUserIds == 1..2

NextPosts ==
    \/ \E b \in Browsers : home(b)
    \/ \E b \in Browsers : \E form \in PostRegisterForms(b) : auth_register(b, form)
    \/ \E b \in Browsers : \E form \in PostLoginForms(b) : auth_login(b, form)
    \/ \E b \in Browsers : \E form_token \in FormTokens(b) : auth_logout(b, form_token)
    \/ \E b \in Browsers : \E form \in PostUserForms(b) : admin_create_user(b, form)
    \/ \E b \in Browsers, user_id \in PostUserIds : \E form_token \in FormTokens(b) :
          admin_toggle_user_active(b, user_id, form_token)
    \/ \E b \in Browsers, user_id \in PostUserIds : \E form_token \in FormTokens(b) :
          admin_toggle_user_admin(b, user_id, form_token)
    \/ \E token \in Tokens, form \in PostCreateForms : create_poll(token, form)
    \/ \E token \in Tokens, form \in PostVoteForms : vote(token, form)
    \/ \E token \in Tokens, form \in PostCodeForms : admin_login(token, form)
    \/ \E token \in Tokens, form_token \in FormTokens("b1") :
          admin_logout(token, form_token)
    \/ \E b \in Browsers, token \in Tokens : \E form \in ArchiveFormsOf(b) :
          archive_poll(b, token, form)

SpecPosts == InitEither /\ [][NextPosts]_vars

----------------------------------------------------------------------------
(* Specification: the desktop weather tool; the user types, selects,       *)
(* presses Escape and searches while timers fire and lookups answer in any *)
(* order                                                                    *)

DeskTexts == {<<>>, <<"a">>, <<"a", "b">>, <<"a", "b", " ">>, <<"a", "c">>}

\* the lookup fails, finds nothing, or finds two places
DeskGeoAnswers == {Failure, Places(<<>>), Places(<<PlaceAb, PlaceAc>>)}

\* the search started from the button fails
DeskForecasts == {Failure}

NextDesktop ==
    \/ \E text \in DeskTexts : key(text)
    \/ \E t \in gui.timers : load_suggestions(t)
    \/ \E th \in gui.threads, geo \in DeskGeoAnswers : load_suggestions_thread(th, geo)
    \/ run_callback
    \/ \E index \in 1..2 : on_suggestion_select(index)
    \/ escape
    \/ fetch_weather
    \/ \E th \in gui.threads, fc \in DeskForecasts :
          fetch_weather_thread(th, Places(<<PlaceAb>>), fc)

SpecDesktop == Init /\ [][NextDesktop]_vars

----------------------------------------------------------------------------
(* Vocabulary of the properties *)

\* the participant a stored row or a submitted identity stands for: the
\* email when there is one, else the name without regard to case
Participant(name, email) ==
    IF lower(strip(email)) # <<>>
    THEN <<"email", lower(strip(email))>>
    ELSE <<"name", lower(strip(name))>>

RowParticipant(v) == Participant(v.participant_name, v.participant_email)

FormParticipant(form) == Participant(form.participant_name, form.participant_email)

\* the rows of one participant in one poll, and the options they select
BallotRows(bag, poll_id, who) ==
    {v \in DOMAIN bag : v.poll_id = poll_id /\ RowParticipant(v) = who}

BallotOptions(bag, poll_id, who) ==
    {v.slot_id : v \in BallotRows(bag, poll_id, who)}

Voters(bag, poll_id) ==
    {RowParticipant(v) : v \in {w \in DOMAIN bag : w.poll_id = poll_id}}

PollIds == 1..Len(polls)

OptionsOf(poll_id) == {i \in 1..Len(slots) : slots[i].poll_id = poll_id}

\* a submission that passes the checks made before the duplicate check
Validated(token, form) ==
    /\ form.csrf_token # "" /\ form.csrf_token = csrf
    /\ get_poll_by_token(token) # NULL
    /\ LET deadline == polls[get_poll_by_token(token)].deadline_at
       IN  deadline = NULL \/ now <= deadline
    /\ form.rgpd_vote
    /\ strip(form.participant_name) # <<>>
    /\ \/ strip(form.participant_email) = <<>>
       \/ EMAIL_REGEX_match(lower(strip(form.participant_email)))
    /\ OptionsOf(get_poll_by_token(token)) # {}

\* the options a submission selects in its poll
NewSelection(poll_id, form) ==
    IF polls[poll_id].response_mode = "single"
    THEN {form.selected_slot} \cap OptionsOf(poll_id)
    ELSE form.selected_slots \cap OptionsOf(poll_id)

SummaryRow(poll_id, slot_id) ==
    LET rows == aggregate_results(poll_id)
    IN  rows[CHOOSE k \in 1..Len(rows) : rows[k].id = slot_id]

AllTokens == TwoTokens \cup {"t0"}

----------------------------------------------------------------------------
(* C1 *)

\* C1: a validated submission without the replace flag for a participant
\* who already holds a ballot in the poll is rejected as a duplicate, and
\* the vote rows and the tallies of the poll are what they were.
C1_DuplicateRejected ==
    \A token \in AllTokens, form \in VoteForms, fail \in 0..MaxFault :
        ( /\ ~form.replace_existing_vote
          /\ Validated(token, form)
          /\ BallotRows(votes, get_poll_by_token(token), FormParticipant(form)) # {} )
        => LET r == vote_result(votes, token, form, fail)
           IN  /\ r.flash = "duplicate"
               /\ r.table = votes
               /\ aggregate_over(r.table, get_poll_by_token(token))
                    = aggregate_results(get_poll_by_token(token))

C1_Witness == resp = "duplicate" /\ votes # EmptyBag

----------------------------------------------------------------------------
(* C2 *)

HasOption(options, slot_id) == IF slot_id \in options THEN 1 ELSE 0

YesCount(bag, poll_id, slot_id) ==
    LET rows == aggregate_over(bag, poll_id)
    IN  rows[CHOOSE k \in 1..Len(rows) : rows[k].id = slot_id].yes_count

\* C2: after an accepted submission with the replace flag for a participant
\* who held a ballot, the participant's rows are exactly the newly selected
\* options, one 'yes' row each; each tally moved by the old and the new
\* choice only, and a sole voter's new single choice is the recommendation.
C2_ReplaceLeavesNewBallot ==
    \A token \in AllTokens, form \in VoteForms, fail \in 0..MaxFault :
        LET poll_id == get_poll_by_token(token)
            who == FormParticipant(form)
            r == vote_result(votes, token, form, fail)
        IN  ( /\ form.replace_existing_vote
              /\ Validated(token, form)
              /\ BallotRows(votes, poll_id, who) # {}
              /\ r.flash \in {"updated", "recorded"} )
            => /\ r.flash = "updated"
               /\ BallotOptions(r.table, poll_id, who) = NewSelection(poll_id, form)
               /\ \A v \in BallotRows(r.table, poll_id, who) :
                      r.table[v] = 1 /\ v.choice = "yes"
               /\ \A s \in OptionsOf(poll_id) :
                      YesCount(r.table, poll_id, s)
                        = YesCount(votes, poll_id, s)
                          - HasOption(BallotOptions(votes, poll_id, who), s)
                          + HasOption(NewSelection(poll_id, form), s)
               /\ ( /\ polls[poll_id].response_mode = "single"
                    /\ Voters(votes, poll_id) = {who} )
                  => recommendation(sorted_summary(aggregate_over(r.table, poll_id))).id
                       = form.selected_slot

C2_Witness ==
    /\ resp = "updated"
    /\ \E p \in PollIds : polls[p].response_mode = "single" /\ Voters(votes, p) # {}

----------------------------------------------------------------------------
(* C3 *)

\* a request whose transaction is open for a replacement that selects at
\* least one option: its DELETE is executed, its commit is still to come
Replacing(r) ==
    /\ lock = r
    /\ conn[r].dup
    /\ conn[r].form.replace_existing_vote
    /\ NewSelection(req_poll(r), conn[r].form) # {}

\* the rows of the participant of request r among the rows of a read
ReadBallot(rows, r) ==
    LET mine(v) == SameBallotRow(v, req_poll(r), form_name(conn[r].form),
                                 form_email(conn[r].form))
    IN  RowsWhere(rows, mine)

ReadIsOldBallot ==
    \A r \in Reqs :
        Replacing(r)
        => /\ ReadBallot(table_read, r) = conn[r].old
           /\ aggregate_over(table_read, req_poll(r))
                = aggregate_results(req_poll(r))

ViewSeesOldBallot ==
    \A token \in Tokens :
        read_participants(token)
        => \A r \in Reqs :
               Replacing(r) => ReadBallot(seen'.rows, r) = conn[r].old

CommitShowsNewBallot ==
    \A r \in Reqs :
        (Replacing(r) /\ finish_vote(r))
        => LET new == ReadBallot(table_read', r)
           IN  /\ {v.slot_id : v \in DOMAIN new}
                    = NewSelection(req_poll(r), conn[r].form)
               /\ \A v \in DOMAIN new : new[v] = 1

\* C3: while a replacing submission that selects at least one option has
\* its transaction open, a read of another request returns the participant's
\* old ballot whole (and the tallies of the stored table), whether the DELETE
\* alone or also some INSERTs are executed; the commit then shows exactly the
\* new selection, one row per option.
C3_ReplaceVisibleTogether ==
    /\ []ReadIsOldBallot
    /\ [][ViewSeesOldBallot /\ CommitShowsNewBallot]_vars

\* a poll view has read the old ballot, not empty, of a participant whose
\* replacement has executed its DELETE and none of its INSERTs
C3_Witness ==
    \E r \in Reqs :
        /\ Replacing(r)
        /\ conn[r].done = 1
        /\ conn[r].old # EmptyBag
        /\ ReadBallot(conn[r].work, r) = EmptyBag
        /\ seen.lock = r
        /\ ReadBallot(seen.rows, r) = conn[r].old

----------------------------------------------------------------------------
(* C4 *)

\* C4: when a write statement of a submission raises (the DELETE of the
\* prior rows or any INSERT after it), the submission is not accepted and
\* the table is exactly what it was: the prior ballot is there, no new row is.
C4_FailedWriteLeavesTable ==
    \A token \in AllTokens, form \in VoteForms, fail \in 1..MaxFault :
        LET poll_id == get_poll_by_token(token)
            who == FormParticipant(form)
            r == vote_result(votes, token, form, fail)
            prior == IF BallotRows(votes, poll_id, who) # {} THEN 1 ELSE 0
        IN  /\ r.flash = "error500" => r.table = votes
            /\ ( /\ Validated(token, form)
                 /\ fail <= prior + Cardinality(NewSelection(poll_id, form)) )
               => /\ r.flash \notin {"recorded", "updated"}
                  /\ r.table = votes

C4_Witness == resp = "error500" /\ votes # EmptyBag

----------------------------------------------------------------------------
(* C5, C6 *)

\* C5: for a poll with at least one voter, every option has
\* yes_count + no_count = number of distinct participants holding a ballot.
C5_TallyCoversVoters ==
    \A p \in PollIds :
        Voters(votes, p) # {}
        => \A k \in 1..Len(aggregate_results(p)) :
               aggregate_results(p)[k].yes_count + aggregate_results(p)[k].no_count
                 = Cardinality(Voters(votes, p))

\* C6: the yes_count of every option is the number of distinct participants
\* that hold a vote row for that option. It holds while requests are handled
\* one at a time; two submissions of one participant that both pass the
\* duplicate check before either commits store two rows for one option.
C6_YesCountsParticipants ==
    \A p \in PollIds :
        \A s \in OptionsOf(p) :
            SummaryRow(p, s).yes_count
              = Cardinality({who \in Voters(votes, p) : s \in BallotOptions(votes, p, who)})

----------------------------------------------------------------------------
(* C7, C8, C9 *)

\* C7: the recommendation of the poll view is the first element of the
\* sorted summary; no element that ties with it on (yes_count, -no_count)
\* comes before it.
C7_RecommendationIsFirst ==
    \A p \in PollIds :
        LET shown == summary_sorted(p)
        IN  shown # <<>>
            => /\ top_choice(p) = shown[1]
               /\ \A k \in 1..Len(shown) :
                      ( /\ shown[k].yes_count = top_choice(p).yes_count
                        /\ shown[k].no_count = top_choice(p).no_count
                        /\ shown[k] # top_choice(p) )
                      => k > 1

C7_Witness ==
    \E p \in PollIds :
        /\ votes # EmptyBag
        /\ Len(summary_sorted(p)) >= 2
        /\ summary_sorted(p)[1].yes_count = summary_sorted(p)[2].yes_count
        /\ top_choice(p) = summary_sorted(p)[1]

\* C8: the recommendation is none when the poll has no options or no vote
\* has been recorded for it.
C8_NoVotesNoRecommendation ==
    \A p \in PollIds :
        (OptionsOf(p) = {} \/ Voters(votes, p) = {}) => top_choice(p) = NoRow

\* the display order of two summary rows
DisplayOrdered(r1, r2) ==
    \/ r1.yes_count > r2.yes_count
    \/ /\ r1.yes_count = r2.yes_count
       /\ \/ r1.no_count < r2.no_count
          \/ /\ r1.no_count = r2.no_count
             /\ \/ StrLess(lower(r1.label), lower(r2.label))
                \/ /\ lower(r1.label) = lower(r2.label)
                   /\ SlotBefore(r1.id, r2.id)

\* C9: the summary of the poll view holds every option once, ordered by
\* descending yes_count, ascending no_count, then label without regard to
\* case; options equal in all three keep the order of their positions, so
\* the sequence is determined by the stored data.
C9_SummaryOrder ==
    \A p \in PollIds :
        LET shown == summary_sorted(p)
            rows == aggregate_results(p)
        IN  /\ Len(shown) = Len(rows)
            /\ {shown[k] : k \in 1..Len(shown)} = {rows[k] : k \in 1..Len(rows)}
            /\ {rows[k].id : k \in 1..Len(rows)} = OptionsOf(p)
            /\ \A k \in 1..Len(shown) - 1 : DisplayOrdered(shown[k], shown[k + 1])

C9_Witness ==
    \E p, q \in PollIds :
        /\ votes # EmptyBag
        /\ StrLess(lower(summary_sorted(p)[1].label), lower(summary_sorted(p)[2].label))
        /\ summary_sorted(p)[1].id > summary_sorted(p)[2].id
        /\ summary_sorted(p)[1].yes_count = summary_sorted(p)[2].yes_count

C9_WitnessEqualLabels ==
    \E p \in PollIds :
        /\ votes # EmptyBag
        /\ summary_sorted(p)[1].label = summary_sorted(p)[2].label
        /\ summary_sorted(p)[1].yes_count = summary_sorted(p)[2].yes_count

----------------------------------------------------------------------------
(* C10 *)

\* a row of the poll that belongs to the submitting participant: same
\* normalized email when the submission has one, whatever the names; else
\* an empty email and the same name without regard to case
RowOfSubmitter(v, poll_id, form) ==
    /\ v.poll_id = poll_id
    /\ IF lower(strip(form.participant_email)) # <<>>
       THEN lower(strip(v.participant_email)) = lower(strip(form.participant_email))
       ELSE /\ v.participant_email = <<>>
            /\ lower(v.participant_name) = lower(strip(form.participant_name))

\* C10: the duplicate check of a validated submission finds a ballot
\* exactly when the same poll holds a row of the submitter; rows of other
\* polls do not count, and vote-status answers the same.
C10_DuplicateDetection ==
    \A token \in TwoTokens, form \in TwoPollVoteForms :
        Validated(token, form)
        => LET poll_id == get_poll_by_token(token)
               held == \E v \in DOMAIN votes : RowOfSubmitter(v, poll_id, form)
               r == vote_result(votes, token, form, 0)
           IN  /\ (r.flash = "duplicate") <=> (held /\ ~form.replace_existing_vote)
               /\ (r.flash = "updated") =>  held
               /\ (r.flash = "recorded") => ~held
               /\ vote_status(token, form.participant_email, form.participant_name)
                    <=> held

\* a name-only ballot and an emailed ballot with the same display name in
\* one poll, while the other poll has no row of that name-only participant
C10_Witness ==
    \E v, w \in DOMAIN votes :
        /\ v.poll_id = w.poll_id
        /\ v.participant_name = w.participant_name
        /\ v.participant_email = <<>>
        /\ w.participant_email # <<>>
        /\ \E p \in PollIds :
              /\ p # v.poll_id
              /\ Voters(votes, p) # {}
              /\ <<"name", lower(v.participant_name)>> \notin Voters(votes, p)

----------------------------------------------------------------------------
(* C11, C12, C13, C14 *)

ModeOf(poll_id) == normalize_response_mode(polls[poll_id].response_mode)

Accepted(r) == r.flash \in {"recorded", "updated"}

\* C11: in a single-choice poll every participant who holds a ballot holds
\* exactly one vote row, for an option of that poll. It holds while requests
\* are handled one at a time; two submissions of one participant that both
\* pass the duplicate check before either commits leave two rows.
C11_SingleOneRow ==
    \A p \in PollIds :
        ModeOf(p) = "single"
        => \A who \in Voters(votes, p) :
               /\ CountRows(votes, BallotRows(votes, p, who)) = 1
               /\ BallotOptions(votes, p, who) \subseteq OptionsOf(p)

\* C12: an accepted submission to a multiple-choice poll leaves the
\* participant one 'yes' row for each selected option of the poll and no row
\* of any kind for the other options.
C12_MultipleStoresSelection ==
    \A token \in AllTokens, form \in VoteForms, fail \in 0..MaxFault :
        LET poll_id == get_poll_by_token(token)
            who == FormParticipant(form)
            r == vote_result(votes, token, form, fail)
        IN  (poll_id # NULL /\ Accepted(r) /\ ModeOf(poll_id) = "multiple")
            => \A s \in OptionsOf(poll_id) :
                   LET rows == {v \in BallotRows(r.table, poll_id, who) : v.slot_id = s}
                   IN  /\ CountRows(r.table, rows) = HasOption(form.selected_slots, s)
                       /\ \A v \in rows : v.choice = "yes"

\* a participant of a multiple-choice poll with two options holds a row for
\* one of them and none for the other
C12_Witness ==
    /\ resp \in {"recorded", "updated"}
    /\ \E p \in PollIds :
          /\ ModeOf(p) = "multiple"
          /\ \E who \in Voters(votes, p) : \E s \in OptionsOf(p) :
                 s \notin BallotOptions(votes, p, who)

\* C13: a submission to a multiple-choice poll that selects an option id
\* which is not an option of the poll is rejected and writes no row.
C13_ForeignOptionRejected ==
    \A token \in AllTokens, form \in VoteForms, fail \in 0..MaxFault :
        LET poll_id == get_poll_by_token(token)
            r == vote_result(votes, token, form, fail)
        IN  ( /\ Validated(token, form)
              /\ ModeOf(poll_id) = "multiple"
              /\ \E s \in form.selected_slots : s >= 0 /\ s \notin OptionsOf(poll_id) )
            => ~Accepted(r) /\ r.table = votes

\* a validated single-choice submission without a choice among the options
BadSingleChoice(token, form) ==
    /\ Validated(token, form)
    /\ ModeOf(get_poll_by_token(token)) = "single"
    /\ form.selected_slot \notin OptionsOf(get_poll_by_token(token))

\* C14: a submission to a single-choice poll with no choice or with a
\* choice that is not an option of the poll is rejected; the table, the
\* tallies and the participant's ballot are what they were, also when the
\* replace flag is set and the DELETE of the prior ballot was executed.
C14_BadSingleChoiceNoMutation ==
    \A token \in AllTokens, form \in VoteForms, fail \in 0..MaxFault :
        BadSingleChoice(token, form)
        => LET poll_id == get_poll_by_token(token)
               r == vote_result(votes, token, form, fail)
           IN  /\ ~Accepted(r)
               /\ r.table = votes
               /\ aggregate_over(r.table, poll_id) = aggregate_results(poll_id)
               /\ fail = 0 => r.flash \in {"duplicate", "choose_option", "option_invalid"}
               /\ (fail = 0 /\ form.replace_existing_vote)
                  => r.flash = IF form.selected_slot < 0
                               THEN "choose_option" ELSE "option_invalid"

\* the answer to a replacing submission with a foreign option id, made by
\* a participant whose ballot is stored
C14_Witness ==
    /\ resp = "option_invalid"
    /\ \E token \in AllTokens, form \in VoteForms :
          /\ BadSingleChoice(token, form)
          /\ form.replace_existing_vote
          /\ form.selected_slot >= 0
          /\ BallotRows(votes, get_poll_by_token(token), FormParticipant(form)) # {}

----------------------------------------------------------------------------
(* C15 *)

\* the deadline of the poll is behind the clock
ClosedPoll(p) == polls[p].deadline_at # NULL /\ now > polls[p].deadline_at

RowsOfPoll(bag, p) ==
    LET keep == {v \in DOMAIN bag : v.poll_id = p} IN [v \in keep |-> bag[v]]

ClosedPollRejects ==
    \A token \in AllTokens, form \in DeadlineVoteForms, fail \in 0..MaxFault :
        LET p == get_poll_by_token(token)
            r == vote_result(votes, token, form, fail)
        IN  p # NULL
            => /\ ClosedPoll(p)
                  => /\ r.flash \in {"csrf", "closed"}
                     /\ validate_csrf(form.csrf_token) => r.flash = "closed"
                     /\ r.table = votes
               /\ polls[p].deadline_at = NULL => r.flash # "closed"

ClosedPollFrozen ==
    \A p \in PollIds :
        ClosedPoll(p)
        => /\ ClosedPoll(p)'
           /\ RowsOfPoll(votes', p) = RowsOfPoll(votes, p)
           /\ aggregate_over(votes', p) = aggregate_over(votes, p)

C15_WitnessNoDeadline ==
    /\ resp = "recorded"
    /\ now = MaxNow
    /\ \E p \in PollIds : polls[p].deadline_at = NULL /\ Voters(votes, p) # {}

----------------------------------------------------------------------------
(* C16 *)

\* an address that cannot have the shape x@y.z: no "@" or no "." in it
NotAnAddress(email) ==
    LET e == lower(strip(email))
    IN  /\ e # <<>>
        /\ \/ \A i \in 1..Len(e) : e[i] # "@"
           \/ \A i \in 1..Len(e) : e[i] # "."

\* a submission that reaches the checks of consent, name, email and options
ReachesChecks(token, form) ==
    /\ validate_csrf(form.csrf_token)
    /\ get_poll_by_token(token) # NULL
    /\ ~is_deadline_passed(polls[get_poll_by_token(token)].deadline_at)

\* C16: a submission without the consent flag, with an address that has
\* not the shape of an email, or to a poll without options is rejected
\* with the message of that check, never with the answer of the duplicate
\* check or of a write, and the table is unchanged.
C16_RejectedBeforeDuplicateCheck ==
    \A token \in AllTokens, form \in VoteForms, fail \in 0..MaxFault :
        LET poll_id == get_poll_by_token(token)
            r == vote_result(votes, token, form, fail)
        IN  ( /\ ReachesChecks(token, form)
              /\ \/ ~form.rgpd_vote
                 \/ NotAnAddress(form.participant_email)
                 \/ OptionsOf(poll_id) = {} )
            => /\ r.table = votes
               /\ r.flash \in {"consent_required", "name_required",
                                "email_invalid", "no_slots"}
               /\ ~form.rgpd_vote => r.flash = "consent_required"
               /\ (form.rgpd_vote /\ strip(form.participant_name) # <<>>
                     /\ NotAnAddress(form.participant_email))
                  => r.flash = "email_invalid"

\* consent was missing in a submission of a participant whose ballot is
\* stored: the duplicate check would have answered
C16_Witness ==
    /\ resp = "consent_required"
    /\ \E p \in PollIds : <<"name", lower(Al)>> \in Voters(votes, p)

\* an address without a dot was refused by a poll that holds ballots
C16_WitnessEmail == resp = "email_invalid" /\ votes # EmptyBag

----------------------------------------------------------------------------
(* C17 *)

StoredNamesBounded ==
    \A v \in DOMAIN votes :
        /\ v.participant_name # <<>>
        /\ v.participant_name[1] \notin Space
        /\ Len(v.participant_name) <= NameCap

NameChecked ==
    \A token \in AllTokens, form \in NameVoteForms :
        LET poll_id == get_poll_by_token(token)
            name == strip(form.participant_name)
            r == vote_result(votes, token, form, 0)
        IN  (ReachesChecks(token, form) /\ form.rgpd_vote)
            => /\ name = <<>> => (r.flash = "name_required" /\ r.table = votes)
               /\ Len(name) > NameCap
                  => /\ r.flash \in {"recorded", "updated", "duplicate"}
                     /\ Accepted(r)
                        => \E v \in DOMAIN r.table :
                               /\ v.poll_id = poll_id
                               /\ v.participant_name = SubSeq(name, 1, NameCap)
                               /\ v.participant_email
                                    = lower(strip(form.participant_email))

\* C17: a submission whose name is empty after trimming is refused, with
\* or without a valid email; a name longer than 80 characters is accepted
\* and stored as its first 80 characters; every stored row has a name of 1
\* to 80 characters.
C17_NameRequiredAndCapped == StoredNamesBounded /\ NameChecked

\* a stored row whose name is the first 80 characters of a longer one
C17_Witness ==
    \E v \in DOMAIN votes :
        v.participant_name = SubSeq(LongName, 1, NameCap) /\ v.participant_email # <<>>

\* a submission with a valid email and a blank name was refused
C17_WitnessNoName == resp = "name_required" /\ votes # EmptyBag

----------------------------------------------------------------------------
(* C18, C19 *)

InFlight(r) == conn[r].pc = "write"

\* the duplicate check of request r would answer now what it answered
\* then: no ballot of its participant was committed since
DupStillTrue(r) ==
    conn[r].dup = duplicate_vote(votes, req_poll(r), form_name(conn[r].form),
                                 form_email(conn[r].form))

\* the table after the whole handler ran alone on a table
Alone(table, token, form) == vote_result(table, token, form, 0).table

\* the rows of everybody but the participant of request r
RowsOfOthers(bag, r) ==
    LET keep == {v \in DOMAIN bag :
                    ~(/\ v.poll_id = req_poll(r)
                      /\ RowParticipant(v) = FormParticipant(conn[r].form))}
    IN  [v \in keep |-> bag[v]]

\* the end of a request changes the table as the handler run alone at that
\* instant would, and neither the rows of another participant nor what the
\* duplicate check of another participant's request answered
CommitIsSerial ==
    \A r \in Reqs :
        (InFlight(r) /\ finish_vote(r))
        => /\ RowsOfOthers(votes', r) = RowsOfOthers(votes, r)
           /\ \A o \in Reqs :
                  ( /\ InFlight(o)
                    /\ FormParticipant(conn[o].form) # FormParticipant(conn[r].form)
                    /\ DupStillTrue(o) )
                  => DupStillTrue(o)'
           /\ DupStillTrue(r)
              => /\ votes' = Alone(votes, conn[r].token, conn[r].form)
                 /\ selection_error(req_poll(r), conn[r].form) = ""
                    => /\ resp' \in {"recorded", "updated"}
                       /\ BallotOptions(votes', req_poll(r),
                                         FormParticipant(conn[r].form))
                            = NewSelection(req_poll(r), conn[r].form)

\* a step that is not the end of a request leaves the table alone
OnlyCommitWrites ==
    votes' # votes => \E r \in Reqs : InFlight(r) /\ finish_vote(r)

\* two requests of different participants in flight: the two serial orders
\* give the same table, and the one that waits for the write lock waits for
\* a request that can go on to its end
DifferentVotersCommute ==
    \A r, o \in Reqs :
        ( /\ r # o /\ InFlight(r) /\ InFlight(o)
          /\ conn[r].token = conn[o].token
          /\ FormParticipant(conn[r].form) # FormParticipant(conn[o].form) )
        => /\ Alone(Alone(votes, conn[r].token, conn[r].form),
                    conn[o].token, conn[o].form)
                = Alone(Alone(votes, conn[o].token, conn[o].form),
                        conn[r].token, conn[r].form)
           /\ lock # NoReq => InFlight(lock)

\* C18: two submissions of different participants to one poll, interleaved
\* statement by statement: each one ends as if it ran alone on the table of
\* that instant, stores its participant's selection, leaves every other
\* participant's rows as they were, and the two serial orders agree.
C18_DifferentVotersSerial ==
    /\ []DifferentVotersCommute
    /\ [][CommitIsSerial /\ OnlyCommitWrites]_vars

\* both participants hold a ballot; one request has executed the DELETE
\* of its replacement while the replacement of the other waits
C18_Witness ==
    \E r, o \in Reqs :
        /\ r # o /\ lock = r /\ InFlight(o)
        /\ conn[r].dup /\ conn[r].done >= 1 /\ conn[r].old # EmptyBag
        /\ conn[o].dup /\ conn[o].done = 0
        /\ FormParticipant(conn[r].form) # FormParticipant(conn[o].form)

\* C19: at any time the table holds at most one row per poll, option and
\* participant, and in a single-choice poll the rows of a participant are
\* one ballot, a single option, not those of two submissions.
C19_OneRowPerParticipantOption ==
    \A p \in PollIds :
        \A who \in Voters(votes, p) :
            /\ \A s \in OptionsOf(p) :
                   CountRows(votes, {v \in BallotRows(votes, p, who) : v.slot_id = s}) <= 1
            /\ ModeOf(p) = "single" => Cardinality(BallotOptions(votes, p, who)) <= 1

----------------------------------------------------------------------------
(* C20 *)

\* C20: a validated submission with the replace flag that is accepted is
\* accepted again when submitted a second time right after, and the second
\* time leaves the table, hence the participant's selection, the tallies and
\* the displayed summary, as the first time left them.
C20_ReplaceIdempotent ==
    \A token \in AllTokens, form \in VoteForms :
        (form.replace_existing_vote /\ Validated(token, form))
        => LET poll_id == get_poll_by_token(token)
               who == FormParticipant(form)
               once == vote_result(votes, token, form, 0)
               twice == vote_result(once.table, token, form, 0)
           IN  Accepted(once)
               => /\ Accepted(twice)
                  /\ NewSelection(poll_id, form) # {} => twice.flash = "updated"
                  /\ twice.table = once.table
                  /\ BallotOptions(twice.table, poll_id, who)
                       = NewSelection(poll_id, form)
                  /\ aggregate_over(twice.table, poll_id)
                       = aggregate_over(once.table, poll_id)
                  /\ sorted_summary(aggregate_over(twice.table, poll_id))
                       = sorted_summary(aggregate_over(once.table, poll_id))

\* the table after a replacement that, submitted once more, is accepted
\* and writes the rows that are there
C20_Witness ==
    /\ resp = "updated"
    /\ \E token \in AllTokens, form \in VoteForms :
          /\ form.replace_existing_vote
          /\ Validated(token, form)
          /\ BallotRows(votes, get_poll_by_token(token), FormParticipant(form)) # {}
          /\ vote_result(votes, token, form, 0).flash = "updated"
          /\ vote_result(votes, token, form, 0).table = votes

----------------------------------------------------------------------------
(* C21 *)

\* the identity a form resolves to, submitted again as it was stored
Resubmitted(form) ==
    [form EXCEPT !.participant_name = form_name(form),
                 !.participant_email = form_email(form)]

\* C21: the normalized name and email of a valid submission, normalized
\* again, are the same name and the same email, hence the same participant.
C21_NormalizeIdempotent ==
    \A token \in AllTokens, form \in NameVoteForms :
        Validated(token, form)
        => /\ form_name(Resubmitted(form)) = form_name(form)
           /\ form_email(Resubmitted(form)) = form_email(form)
           /\ FormParticipant(Resubmitted(form))
                = Participant(form_name(form), form_email(form))
           /\ duplicate_vote(votes, get_poll_by_token(token),
                             form_name(Resubmitted(form)), form_email(Resubmitted(form)))
                <=> duplicate_vote(votes, get_poll_by_token(token),
                                   form_name(form), form_email(form))

----------------------------------------------------------------------------
(* C22 *)

\* the columns of a poll that no later request may change
PollCore(row) ==
    [token |-> row.token, title |-> row.title,
     response_mode |-> row.response_mode, deadline_at |-> row.deadline_at]

\* the columns of a poll other than the archival ones
PollUnarchived(row) ==
    [row EXCEPT !.archived_at = NULL, !.archived_by_user_id = NULL]

\* every poll keeps its id and its core columns
PollsKept ==
    /\ Len(polls') >= Len(polls)
    /\ \A i \in 1..Len(polls) : PollCore(polls'[i]) = PollCore(polls[i])

\* every option keeps its id, poll, label and position; options are added
\* only for a poll created in the same step
OptionsKept ==
    /\ Len(slots') >= Len(slots)
    /\ \A k \in 1..Len(slots) : slots'[k] = slots[k]
    /\ \A k \in Len(slots) + 1..Len(slots') : slots'[k].poll_id > Len(polls)

Archival(row) == <<row.archived_at, row.archived_by_user_id>>

\* a step that changes the archival columns of a poll changes nothing else
\* of the tables
ArchiveOnly ==
    (\E i \in 1..Len(polls) : Archival(polls'[i]) # Archival(polls[i]))
    => /\ Len(polls') = Len(polls)
       /\ \A i \in 1..Len(polls) : PollUnarchived(polls'[i]) = PollUnarchived(polls[i])
       /\ slots' = slots
       /\ votes' = votes
       /\ users' = users
       /\ resp' \in {"archived", "unarchived"}

\* what the archive handler would do with any form, in any reachable state
ArchiveResultOnly ==
    \A token \in AllTokens, form \in ArchiveForms :
        LET r == archive_poll_result("b1", token, form)
        IN  /\ r.users = users
            /\ Len(r.polls) = Len(polls)
            /\ \A i \in 1..Len(polls) :
                  PollUnarchived(r.polls[i]) = PollUnarchived(polls[i])

\* C22: no request changes the token, title, response mode or deadline of an
\* existing poll, nor its options; archive and unarchive change only the
\* archival columns of the poll and leave the vote rows as they are.
C22_PollImmutable ==
    /\ []ArchiveResultOnly
    /\ [][PollsKept /\ OptionsKept /\ ArchiveOnly]_vars

\* a poll with votes that has been archived by its creator
C22_Witness ==
    /\ resp = "archived"
    /\ votes # EmptyBag
    /\ \E i \in 1..Len(polls) :
          /\ polls[i].archived_at # NULL
          /\ polls[i].archived_by_user_id = polls[i].created_by_user_id

\* a poll with votes that has been archived and unarchived again
C22_WitnessUnarchived ==
    /\ resp = "unarchived"
    /\ votes # EmptyBag
    /\ \E i \in 1..Len(polls) : polls[i].archived_at = NULL

----------------------------------------------------------------------------
(* C23 *)

\* the description of a code: the entry of the table for an integer that is
\* a key of it, the fallback for any other value
Described(raw) ==
    IF raw.t = "int" /\ raw.v \in DOMAIN WEATHER_CODES
    THEN WEATHER_CODES[raw.v] ELSE Unavailable

\* what the web tool answers for a forecast
WebAnswer(fc) == weather_result(WeatherRequest(<<"a", "b">>, TRUE), Failure, fc)

\* C23: for every forecast the desktop tool is about to display, both tools
\* give the described label for the current code and for each day: the
\* table entry for a code of the table, "Description indisponible" for any
\* other integer and for a missing or non-integer code, and never an error.
C23_FallbackLabel ==
    /\ \A n \in DOMAIN WEATHER_CODES :
          /\ web_weather_label(JsonInt(n)) = WEATHER_CODES[n]
          /\ desktop_current_label(JsonInt(n)) = WEATHER_CODES[n]
          /\ desktop_daily_label(JsonInt(n)) = WEATHER_CODES[n]
    /\ \A k \in 1..Len(gui.queue) :
          gui.queue[k].fn = "_update_ui"
          => LET fc == gui.queue[k].forecast
                 shown == update_ui(gui, gui.queue[k].place, fc)
             IN  /\ shown.status = "updated"
                 /\ shown.current = Described(fc.current)
                 /\ WebAnswer(fc).status = 200
                 /\ WebAnswer(fc).current = Described(fc.current)
                 /\ shown.current = WebAnswer(fc).current
                 /\ shown.daily = WebAnswer(fc).daily
                 /\ \A d \in 1..Len(fc.daily) : shown.daily[d] = Described(fc.daily[d])

\* the unknown code 12345 displayed by the desktop tool and answered by the
\* web tool with the fallback label
C23_Witness ==
    /\ gui.status = "updated"
    /\ gui.current = Unavailable
    /\ wx.status = 200
    /\ wx.current = Unavailable

----------------------------------------------------------------------------
(* C24 *)

FailedCalls(answer) == {k \in 1..Len(answer.calls) : ~answer.calls[k].ok}

\* the answer is a 502 exactly when an API call of the request failed; the
\* failed call is the last call of the request and no API is called twice
FailureAnswered(answer) ==
    /\ answer.status = 502 <=> FailedCalls(answer) # {}
    /\ \A k \in FailedCalls(answer) : k = Len(answer.calls)
    /\ \A j, k \in 1..Len(answer.calls) :
          j # k => answer.calls[j].api # answer.calls[k].api
    /\ answer.status = 502 => answer.location = <<>> /\ answer.current = ""

\* a request that follows a failed one and whose API calls succeed is
\* answered as a first request would be
ServedAfterFailure ==
    (wx.status = 502 /\ wx' # wx /\ FailedCalls(wx') = {})
    => /\ wx'.status \in {200, 400, 404}
       /\ wx'.status = 200 /\ wx'.route = "weather" => wx'.current # ""

\* C24: a failed geocoding or forecast call makes the endpoint answer 502
\* for that request, after one attempt and without another call; the next
\* requests are answered normally.
C24_UpstreamFailure ==
    /\ []FailureAnswered(wx)
    /\ [][ServedAfterFailure]_vars

\* a weather request whose geocoding call succeeded and whose forecast call
\* failed, answered 502
C24_Witness ==
    /\ wx.route = "weather"
    /\ wx.status = 502
    /\ Len(wx.calls) = 2
    /\ wx.calls[1].ok /\ ~wx.calls[2].ok

\* a suggestion request whose geocoding call failed, answered 502
C24_WitnessSuggest ==
    /\ wx.route = "suggest"
    /\ wx.status = 502
    /\ Len(wx.calls) = 1

----------------------------------------------------------------------------
(* C25 *)

\* the same form submitted without the replace flag
WithoutReplace(form) == [form EXCEPT !.replace_existing_vote = FALSE]

\* C25: after a validated submission is accepted, the participant has a
\* ballot in the poll and the same identity submitted again at once without
\* the replace flag is rejected as a duplicate, leaving the table as it is,
\* in single mode and in multiple mode.
C25_AcceptedThenDuplicate ==
    \A token \in AllTokens, form \in VoteForms :
        Validated(token, form)
        => LET poll_id == get_poll_by_token(token)
               first == vote_result(votes, token, form, 0)
               again == vote_result(first.table, token, WithoutReplace(form), 0)
           IN  Accepted(first)
               => /\ first.remember
                  /\ BallotRows(first.table, poll_id, FormParticipant(form)) # {}
                  /\ again.flash = "duplicate"
                  /\ again.table = first.table

\* a recorded ballot whose participant, submitting again without the replace
\* flag, is rejected as a duplicate
C25_Witness ==
    /\ resp = "recorded"
    /\ \E token \in AllTokens, form \in VoteForms :
          /\ Validated(token, form)
          /\ get_poll_by_token(token) \in DOMAIN voter
          /\ BallotRows(votes, get_poll_by_token(token), FormParticipant(form)) # {}
          /\ vote_result(votes, token, WithoutReplace(form), 0).flash = "duplicate"

----------------------------------------------------------------------------
(* C26 *)

\* C26: once an account is active and administrator, every later state has
\* an account that is active and administrator, whatever toggle requests
\* the administrators make and however they interleave.
C26_ActiveAdminRemains ==
    [][active_admins_count(users) >= 1 => active_admins_count(users') >= 1]_vars

\* two administrators, each logged in in a browser, each with a toggle
\* request on the other past its checks
C26_Witness ==
    /\ active_admins_count(users) = 2
    /\ \A b \in Browsers :
          /\ pend[b] # NoToggle
          /\ get_current_user(b) # NULL
          /\ pend[b].user_id # login[b]

----------------------------------------------------------------------------
(* C27 *)

\* the session of browser b names an account that is not active
Stale(b) ==
    /\ login[b] \in 1..Len(users)
    /\ ~users[login[b]].is_active

\* the session left by a request names no inactive account
NoInactiveSession(r) == r.user \in 1..Len(users) => users[r.user].is_active

\* the request changed no table and dropped the session's account
DroppedUnserved(b, r) ==
    /\ r.users = users
    /\ r.polls = polls
    /\ r.user = NULL
    /\ ~r.cleared

\* a login or a registration never leaves an inactive account in the
\* session, and a login with the right password for an inactive account is
\* answered "account disabled"
LoginRefusesInactive ==
    \A b \in Browsers :
        /\ \A form \in LoginForms(b) :
              LET r == auth_login_result(b, form)
                  user == get_user_by_email(lower(strip(form.email)))
              IN  /\ NoInactiveSession(r)
                  /\ ( /\ get_current_user(b) = NULL
                       /\ validate_csrf_of(b, form.csrf_token)
                       /\ user # NULL
                       /\ ~users[user].is_active
                       /\ check_password_hash(users[user].password_hash, form.password) )
                     => r.resp = "account_disabled" /\ r.user = NULL
        /\ \A form \in RegisterForms(b) :
              auth_register_result(b, form).users = users
              => NoInactiveSession(auth_register_result(b, form))

\* every request of a session whose account is inactive to the pages and
\* operations for accounts drops the session and does nothing else
StaleSessionDropped ==
    \A b \in Browsers :
        Stale(b)
        => /\ get_current_user(b) = NULL
           /\ my_polls_result(b) = {}
           /\ admin_users_result(b) = "login_page"
           /\ \A form_token \in FormTokens(b) :
                 /\ DroppedUnserved(b, auth_logout_result(b, form_token))
                 /\ \A user_id \in UserIds :
                       /\ DroppedUnserved(b,
                             admin_toggle_user_active_result(b, user_id, form_token))
                       /\ DroppedUnserved(b,
                             admin_toggle_user_admin_result(b, user_id, form_token))
           /\ \A form \in UserForms(b) :
                 DroppedUnserved(b, admin_create_user_result(b, form))
           /\ \A token \in AllTokens, form \in ArchiveFormsOf(b) :
                 DroppedUnserved(b, archive_poll_result(b, token, form))

\* a step that leaves the session of an inactive account in place changes
\* no account and no poll, unless another session made it
StaleStep ==
    \A b \in Browsers :
        (Stale(b) /\ login'[b] = login[b] /\ (users' # users \/ polls' # polls))
        => \E o \in Browsers \ {b} : get_current_user(o) # NULL

C27_WitnessLogin ==
    /\ resp = "account_disabled"
    /\ \E i \in 1..Len(users) : ~users[i].is_active
    /\ \A b \in Browsers : ~Stale(b)

----------------------------------------------------------------------------
(* C28 *)

\* the session holds the organizer flag of the poll
InOrganizerMode(poll_id) == poll_id \in admin

\* the session is logged in as the active account that created the poll
CreatorLoggedIn(poll_id) ==
    /\ login["b1"] \in 1..Len(users)
    /\ users[login["b1"]].is_active
    /\ polls[poll_id].created_by_user_id = login["b1"]

\* the identities of the participants of a poll, as the view lists them
ParticipantKeys(poll_id) ==
    {participant_key(v) : v \in {w \in DOMAIN votes : w.poll_id = poll_id}}

\* the page of every poll lists the participants and their choices to the
\* organizer and to the creator, and lists nothing to any other session,
\* which is given the tallies all the same
ListsOnlyForOrganizer ==
    \A token \in AllTokens :
        get_poll_by_token(token) # NULL
        => LET poll_id == get_poll_by_token(token)
               page == poll_page(token)
           IN  /\ page.summary = summary_sorted(poll_id)
               /\ Len(page.summary) = Cardinality(OptionsOf(poll_id))
               /\ IF InOrganizerMode(poll_id) \/ CreatorLoggedIn(poll_id)
                  THEN /\ page.participants = ParticipantKeys(poll_id)
                       /\ DOMAIN page.matrix = ParticipantKeys(poll_id)
                  ELSE /\ page.participants = {}
                       /\ page.matrix = <<>>

\* an organizer login sets the flag only with the code whose hash the poll
\* stores, and an organizer logout with the session's token removes it
CodeOpensLogoutCloses ==
    \A token \in AllTokens :
        get_poll_by_token(token) # NULL
        => LET poll_id == get_poll_by_token(token)
           IN  /\ \A form \in CodeForms :
                     LET r == admin_login_result(token, form)
                     IN  /\ r.admin \ admin \subseteq {poll_id}
                         /\ poll_id \in r.admin \ admin
                            => /\ validate_csrf(form.csrf_token)
                               /\ generate_password_hash(strip(form.organizer_code))
                                    = polls[poll_id].organizer_code_hash
               /\ validate_csrf("tok")
                  => poll_id \notin admin_logout_result(token, "tok").admin

\* the flag of a poll is set by the step that creates the poll or by an
\* accepted organizer login, and removed by an organizer logout or by the
\* session.clear() of an account login, registration or logout
FlagSteps ==
    /\ \A poll_id \in admin' \ admin :
          \/ resp' = "created" /\ poll_id = Len(polls') /\ Len(polls') = Len(polls) + 1
          \/ resp' = "organizer_on" /\ poll_id \in 1..Len(polls)
    /\ admin \ admin' # {}
       => resp' \in {"organizer_off", "logged_in", "registered", "logged_out"}

C28_WitnessCode ==
    /\ resp = "organizer_on"
    /\ \E poll_id \in PollIds :
          /\ InOrganizerMode(poll_id)
          /\ ~CreatorLoggedIn(poll_id)
          /\ poll_page(polls[poll_id].token).participants # {}

----------------------------------------------------------------------------
(* C29 *)

\* the form token is missing, or the session has none, or they differ
TokenRefused(b, form_token) ==
    \/ form_token = ""
    \/ session_token(b) = ""
    \/ form_token # session_token(b)

\* a step of browser b that handles a POST whose token is refused
RefusedPost(b) ==
    \/ \E form_token \in FormTokens(b) :
          /\ TokenRefused(b, form_token)
          /\ \/ auth_logout(b, form_token)
             \/ \E user_id \in PostUserIds :
                   \/ admin_toggle_user_active(b, user_id, form_token)
                   \/ admin_toggle_user_admin(b, user_id, form_token)
             \/ \E token \in Tokens, action \in {"archive", "unarchive"} :
                   archive_poll(b, token, ArchiveForm(form_token, action))
             \/ \E form \in PostUserForms(b) :
                   admin_create_user(b, [form EXCEPT !.csrf_token = form_token])
             \/ \E form \in PostRegisterForms(b) :
                   auth_register(b, [form EXCEPT !.csrf_token = form_token])
             \/ \E form \in PostLoginForms(b) :
                   auth_login(b, [form EXCEPT !.csrf_token = form_token])
             \/ /\ b = "b1"
                /\ \E token \in Tokens :
                      \/ admin_logout(token, form_token)
                      \/ admin_login(token, CodeForm(form_token, Code))
                      \/ vote(token, [PlainVote EXCEPT !.csrf_token = form_token])
                      \/ create_poll(token, [SingleBa EXCEPT !.csrf_token = form_token])

\* the same, for the POSTs that the statement lists by name
RefusedListedPost(b) ==
    \E form_token \in FormTokens(b) :
        /\ TokenRefused(b, form_token)
        /\ \/ auth_logout(b, form_token)
           \/ \E user_id \in PostUserIds :
                 \/ admin_toggle_user_active(b, user_id, form_token)
                 \/ admin_toggle_user_admin(b, user_id, form_token)
           \/ \E token \in Tokens, action \in {"archive", "unarchive"} :
                 archive_poll(b, token, ArchiveForm(form_token, action))
           \/ \E form \in PostUserForms(b) :
                 admin_create_user(b, [form EXCEPT !.csrf_token = form_token])

DatabaseKept ==
    /\ users' = users
    /\ polls' = polls
    /\ slots' = slots
    /\ votes' = votes

\* the step answers without applying the request: the token is refused,
\* or the session is sent to the login page before the token is looked at,
\* or a login or registration is sent home (accounts are off, or the
\* session is logged in already)
NotApplied ==
    resp' \in {"csrf", "login_required", "home"}

\* the stale key of a session that names an inactive account is dropped
StaleKeyDropped(b) == Stale(b) /\ login'[b] = NULL

\* what the statement says of a refused POST of browser b
ChangesNothing(b) ==
    /\ NotApplied
    /\ DatabaseKept
    /\ admin' = admin
    /\ login'[b] = login[b]

\* the same, the stale key of browser b apart
ChangesNothingButStaleKey(b) ==
    /\ NotApplied
    /\ DatabaseKept
    /\ admin' = admin
    /\ login'[b] = login[b] \/ StaleKeyDropped(b)
    /\ \A other \in Browsers \ {b} : login'[other] = login[other]

C29_WitnessStale ==
    \E b \in Browsers :
        /\ Stale(b)
        /\ ENABLED (RefusedListedPost(b) /\ login'[b] = NULL /\ resp' = "login_required")

----------------------------------------------------------------------------
(* C30 *)

\* the lookups started and not yet answered, and the answers not yet handled
LookupThreads == {th \in gui.threads : th.target = "_load_suggestions_thread"}

Responses ==
    {k \in 1..Len(gui.queue) : gui.queue[k].fn = "_show_suggestions"}

\* the response is not of the lookup issued last, or not for the text that
\* the field holds now (leading and trailing blanks apart, as in the query)
StaleResponse(cb) ==
    \/ cb.request_id # gui.suggestion_request_id
    \/ cb.query # strip(gui.text)

\* at most one debounced lookup is pending, and it is the one issued last
OnePendingLookup ==
    /\ Cardinality(gui.timers) <= 1
    /\ \A t \in gui.timers :
          /\ t.request_id = gui.suggestion_request_id
          /\ t.request_id = gui.suggestion_job
          /\ Len(t.query) >= MinQuery

\* every lookup has its own number, none above the number issued last
LookupsNumbered ==
    LET ids == [kind \in {"timer", "thread", "response"} |->
                  CASE kind = "timer" -> {t.request_id : t \in gui.timers}
                    [] kind = "thread" -> {th.request_id : th \in LookupThreads}
                    [] OTHER -> {gui.queue[k].request_id : k \in Responses}]
    IN  /\ \A kind \in DOMAIN ids : ids[kind] \subseteq 1..gui.suggestion_request_id
        /\ ids["timer"] \cap ids["thread"] = {}
        /\ ids["timer"] \cap ids["response"] = {}
        /\ ids["thread"] \cap ids["response"] = {}
        /\ Cardinality(LookupThreads) = Cardinality(ids["thread"])
        /\ Cardinality(Responses) = Cardinality(ids["response"])

\* a step that shows the list, or changes the list shown, handles a response
\* of the lookup issued last whose query is the text of the field
ShownOnlyIfCurrent ==
    (gui'.mapped /\ (~gui.mapped \/ gui'.suggestion_places # gui.suggestion_places))
    => /\ gui.queue # <<>>
       /\ Head(gui.queue).fn = "_show_suggestions"
       /\ ~StaleResponse(Head(gui.queue))
       /\ Head(gui.queue).places # <<>>
       /\ gui'.suggestion_places = Head(gui.queue).places
       /\ gui'.queue = Tail(gui.queue)

\* a stale response is taken from the queue and changes nothing
StaleDiscarded ==
    ( /\ gui.queue # <<>>
      /\ Len(gui'.queue) < Len(gui.queue)
      /\ Head(gui.queue).fn = "_show_suggestions"
      /\ StaleResponse(Head(gui.queue)) )
    => gui' = [gui EXCEPT !.queue = Tail(gui.queue)]

\* a keystroke leaves no lookup pending but its own; under two characters it
\* issues none and hides the list
Keystroke ==
    \A text \in DeskTexts :
        key(text)
        => /\ gui.timers \cap gui'.timers = {}
           /\ gui'.threads = gui.threads
           /\ gui'.queue = gui.queue
           /\ IF Len(strip(text)) < MinQuery
              THEN /\ gui'.timers = {}
                   /\ gui'.suggestion_request_id = gui.suggestion_request_id
                   /\ ~gui'.mapped
                   /\ gui'.suggestion_places = <<>>
              ELSE /\ gui'.suggestion_request_id = gui.suggestion_request_id + 1
                   /\ gui'.timers = {[query |-> strip(text),
                                      request_id |-> gui'.suggestion_request_id]}

\* C30: in the desktop weather tool a suggestion response is displayed only
\* if it belongs to the lookup issued last and its query equals the current
\* (trimmed) text of the city field; responses out of order or for
\* superseded input are discarded; a keystroke cancels the pending debounced
\* lookup; input under 2 characters issues no lookup and hides the list.
C30_OnlyCurrentSuggestionsShown ==
    /\ [](OnePendingLookup /\ LookupsNumbered)
    /\ [][ShownOnlyIfCurrent /\ StaleDiscarded /\ Keystroke]_vars

\* a response that arrives out of order: it carries places for the text the
\* field holds again, but a later lookup has been issued since
C30_Witness ==
    /\ gui.queue # <<>>
    /\ Head(gui.queue).fn = "_show_suggestions"
    /\ Head(gui.queue).places # <<>>
    /\ Head(gui.queue).query = strip(gui.text)
    /\ Head(gui.queue).request_id < gui.suggestion_request_id
    /\ ~gui.mapped

\* the list of the lookup issued last is shown while an older lookup has
\* not answered yet
C30_WitnessShown ==
    /\ gui.mapped
    /\ gui.suggestion_places # <<>>
    /\ \E th \in LookupThreads : th.request_id < gui.suggestion_request_id

====
